---- MODULE Spec2Model ----
(***************************************************************************)
(* A model of thesma-mcp: the API client's construction and error          *)
(* translation (src/thesma_mcp/client.py), the ticker-to-CIK resolver with *)
(* its in-memory cache (src/thesma_mcp/resolver.py), the tool handlers     *)
(* (src/thesma_mcp/tools) as the resolver calls and requests they issue,   *)
(* and the server process with its lifespan (src/thesma_mcp/server.py).    *)
(*                                                                         *)
(* Conventions.                                                            *)
(*  - A Python str is a sequence of chunks (TLA+ strings).  Tickers and    *)
(*    identifiers carry one character per chunk, so that str.upper() and   *)
(*    the CIK regular expression are computed character by character;      *)
(*    opaque texts (API messages, URLs) are one chunk.                      *)
(*  - An f-string is the record of its template and of the values it       *)
(*    interpolates: Msg("a {} b", <<v>>).                                   *)
(*  - A value is tagged: JNull, JStr(s), JInt(n), JBool(b), JList(seq),    *)
(*    JMap(f).                                                              *)
(*  - The outcome of a call is Return(value) or Raise(type, message).       *)
(***************************************************************************)
EXTENDS Integers, Sequences, FiniteSets, TLC

VARIABLES
    cache,          \* TickerResolver._cache: upper-cased ticker -> cik
    pc,             \* per resolve coroutine: "idle" or "awaiting" (suspended in client.get)
    ticker_or_cik,  \* per resolve coroutine: the argument of the running call
    lookup,         \* per resolve coroutine: the request it has in flight, or NoRequest
    last,           \* the resolve call that finished most recently (what its caller saw)
    firstId,        \* history: key -> the identifier the first successful lookup of key returned
    gpc,            \* one direct ThesmaClient.get call: "idle", "sent" or "done"
    request,        \* the path of that call
    response,       \* the transport outcome it received
    result,         \* what it returned or raised
    environ,        \* os.environ of the process that constructs the client
    init_args,      \* the arguments of that construction
    client,         \* what the construction returned (the object) or raised
    tool,           \* the tool invocation in progress: handler name and arguments
    tpc,            \* where its coroutine is: "idle", the request it awaits, or "done"
    tlocals,        \* its local variables: cik and company_name, once known
    trace,          \* what it has done so far: resolver calls and requests, in order
    tret,           \* what the handler returned or raised
    mpc,            \* the server process: "start", "running" (inside mcp.run) or "exited"
    stderr,         \* what main has printed to standard error
    exit_status,    \* the exit status of the process, None while it runs
    transports,     \* the transports mcp.run was called with, in order
    lpc,            \* app_lifespan: "out", "yielded", "failed" or "ended"
    clients,        \* the ThesmaClient objects the process has constructed
    resolvers,      \* the TickerResolver objects it has constructed
    context,        \* the AppContext the lifespan yielded
    handed,         \* the contexts tool invocations were given, in order
    ending          \* how the server body ended: "normal", "raised" or "cancelled"

resolverVars == <<cache, pc, ticker_or_cik, lookup, last, firstId>>
clientVars == <<gpc, request, response, result>>
constructVars == <<environ, init_args, client>>
toolVars == <<tool, tpc, tlocals, trace, tret>>
serverVars == <<mpc, stderr, exit_status, transports, lpc, clients, resolvers, context, handed, ending>>
vars ==
    <<cache, pc, ticker_or_cik, lookup, last, firstId, gpc, request, response, result,
      environ, init_args, client, tool, tpc, tlocals, trace, tret,
      mpc, stderr, exit_status, transports, lpc, clients, resolvers, context, handed, ending>>

-----------------------------------------------------------------------------
(* Python values *)

JNull == [t |-> "null"]

JStr(s) == [t |-> "str", v |-> s]

JList(s) == [t |-> "list", v |-> s]

JMap(f) == [t |-> "map", v |-> f]

JInt(n) == [t |-> "int", v |-> n]

JBool(b) == [t |-> "bool", v |-> b]

EmptyDict == <<>>

Return(v) == [kind |-> "return", value |-> v]

Msg(fmt, args) == [fmt |-> fmt, args |-> args]

Raise(type, message) == [kind |-> "raise", type |-> type, message |-> message]

NoMessage == Msg("", <<>>)

\* str(x), as an f-string or Exception.__str__ renders a value
PyStr(j) ==
    CASE j.t = "str" -> j.v
      [] j.t = "null" -> <<"None">>
      [] j.t = "list" -> <<"[...]">>
      [] j.t = "map" -> <<"{...}">>

\* bool(x): None, "", [] and {} are falsy
Truthy(j) ==
    CASE j.t = "null" -> FALSE
      [] j.t = "str" -> j.v # <<>>
      [] j.t = "list" -> j.v # <<>>
      [] j.t = "map" -> DOMAIN j.v # {}
      [] j.t = "int" -> j.v # 0
      [] j.t = "bool" -> j.v

\* x.get(key, default) evaluated on a JSON value: only a dict has .get
HasGet(j) == j.t = "map"

DictGet(j, key, default) == IF key \in DOMAIN j.v THEN j.v[key] ELSE default

\* str.upper(), character by character
UpperChar(c) ==
    CASE c = "a" -> "A"
      [] c = "p" -> "P"
      [] c = "l" -> "L"
      [] OTHER -> c

upper(s) == [i \in DOMAIN s |-> UpperChar(s[i])]

-----------------------------------------------------------------------------
(* client.py *)

DEFAULT_BASE_URL == <<"https://api.thesma.dev">>

\* the client the fixtures and the server build: no THESMA_API_URL override
TheClient == [base_url |-> DEFAULT_BASE_URL]

CannotReach(self) ==
    Msg("Cannot reach Thesma API at {}. Check your network connection.", <<self.base_url>>)

UnknownError == JStr(<<"Unknown error">>)

\* mutant of api_message: a missing message field is rendered as None
api_message_nodefault(resp) ==
    IF ~resp.body.is_json THEN UnknownError
    ELSE LET body == resp.body.value IN
         IF ~HasGet(body) THEN UnknownError
         ELSE LET error == DictGet(body, "error", JMap(EmptyDict)) IN
              IF ~HasGet(error) THEN UnknownError
              ELSE DictGet(error, "message", JNull)

\* _handle_error, the try block: the message the API supplied
api_message(resp) ==
    IF ~resp.body.is_json THEN UnknownError
    ELSE LET body == resp.body.value IN
         IF ~HasGet(body) THEN UnknownError
         ELSE LET error == DictGet(body, "error", JMap(EmptyDict)) IN
              IF ~HasGet(error) THEN UnknownError
              ELSE DictGet(error, "message", UnknownError)

\* mutant of retry_after: the header is never read
retry_after_fixed(resp) == <<"60">>

\* response.headers.get("Retry-After", "60")
retry_after(resp) ==
    IF "Retry-After" \in DOMAIN resp.headers THEN resp.headers["Retry-After"] ELSE <<"60">>

\* mutant of _handle_error: "status > 500", so a 500 falls to the last branch
_handle_error_gt500(self, resp) ==
    LET status == resp.status_code IN
    IF status = 401 THEN
        Raise("ThesmaAPIError",
              Msg("{}. Get a new key at https://portal.thesma.dev", <<PyStr(api_message(resp))>>))
    ELSE IF status = 404 THEN
        Raise("ThesmaAPIError", Msg("{}", <<PyStr(api_message(resp))>>))
    ELSE IF status = 429 THEN
        Raise("ThesmaAPIError",
              Msg("Rate limit exceeded. Try again in {} seconds. Upgrade at https://portal.thesma.dev/billing",
                  <<retry_after(resp)>>))
    ELSE IF status > 500 THEN
        Raise("ThesmaAPIError",
              Msg("Thesma API is temporarily unavailable. Try again in a moment.", <<>>))
    ELSE
        Raise("ThesmaAPIError", Msg("{}", <<PyStr(api_message(resp))>>))

\* mutant of _handle_error: the server's detail is appended to the 5xx message
_handle_error_leaky(self, resp) ==
    LET status == resp.status_code IN
    IF status = 401 THEN
        Raise("ThesmaAPIError",
              Msg("{}. Get a new key at https://portal.thesma.dev", <<PyStr(api_message(resp))>>))
    ELSE IF status = 404 THEN
        Raise("ThesmaAPIError", Msg("{}", <<PyStr(api_message(resp))>>))
    ELSE IF status = 429 THEN
        Raise("ThesmaAPIError",
              Msg("Rate limit exceeded. Try again in {} seconds. Upgrade at https://portal.thesma.dev/billing",
                  <<retry_after(resp)>>))
    ELSE IF status >= 500 THEN
        Raise("ThesmaAPIError",
              Msg("Thesma API is temporarily unavailable. Try again in a moment. ({})",
                  <<PyStr(api_message(resp))>>))
    ELSE
        Raise("ThesmaAPIError", Msg("{}", <<PyStr(api_message(resp))>>))

\* _handle_error, the status dispatch
_handle_error(self, resp) ==
    LET status == resp.status_code IN
    IF status = 401 THEN
        Raise("ThesmaAPIError",
              Msg("{}. Get a new key at https://portal.thesma.dev", <<PyStr(api_message(resp))>>))
    ELSE IF status = 404 THEN
        Raise("ThesmaAPIError", Msg("{}", <<PyStr(api_message(resp))>>))
    ELSE IF status = 429 THEN
        Raise("ThesmaAPIError",
              Msg("Rate limit exceeded. Try again in {} seconds. Upgrade at https://portal.thesma.dev/billing",
                  <<retry_after(resp)>>))
    ELSE IF status >= 500 THEN
        Raise("ThesmaAPIError",
              Msg("Thesma API is temporarily unavailable. Try again in a moment.", <<>>))
    ELSE
        Raise("ThesmaAPIError", Msg("{}", <<PyStr(api_message(resp))>>))

\* response.json()
json(resp) ==
    IF resp.body.is_json THEN Return(resp.body.value) ELSE Raise("JSONDecodeError", NoMessage)

\* ThesmaClient.get, from the transport's outcome to what the caller sees
get(self, outcome) ==
    CASE outcome.kind = "TimeoutException" -> Raise("ThesmaAPIError", CannotReach(self))
      [] outcome.kind = "ConnectError" -> Raise("ThesmaAPIError", CannotReach(self))
      [] outcome.kind = "ReadError" -> Raise("ReadError", NoMessage)
      [] outcome.kind = "response" ->
            IF outcome.status_code >= 400 /\ _handle_error(self, outcome).kind = "raise"
            THEN _handle_error(self, outcome)
            ELSE json(outcome)

-----------------------------------------------------------------------------
(* The remote API and the transport: what one HTTP request can come back with *)

NotJson == [is_json |-> FALSE, value |-> JNull]

Json(v) == [is_json |-> TRUE, value |-> v]

NoHeaders == <<>>

Response(status, headers, body) ==
    [kind |-> "response", status_code |-> status, headers |-> headers, body |-> body]

Transport(kind) ==
    [kind |-> kind, status_code |-> 0, headers |-> NoHeaders, body |-> NotJson]

\* {"error": {"message": m}}, the API's error body
ErrorBody(m) == Json(JMap([error |-> JMap([message |-> m])]))

ApiMessages == {JStr(<<"Invalid or revoked API key.">>), JStr(<<"Company not found">>), JNull}

ErrorBodies ==
    {ErrorBody(m) : m \in ApiMessages}
    \cup {NotJson,
          Json(JMap([error |-> JMap([code |-> JStr(<<"internal">>)])])),
          Json(JMap([error |-> JStr(<<"Oops">>)])),
          Json(JMap(EmptyDict)),
          Json(JList(<<>>))}

AAPL_CIK == <<"0", "0", "0", "0", "3", "2", "0", "1", "9", "3">>

MSFT_CIK == <<"0", "0", "0", "0", "7", "8", "9", "0", "1", "9">>

\* a CIK without its zero padding: not canonical, looked up as a ticker
UNPADDED == <<"3", "2", "0", "1", "9", "3">>

Company(cik) == JMap([cik |-> JStr(cik), ticker |-> JStr(<<"AAPL">>)])

\* {"data": d}, the API's list body
DataBody(d) == Json(JMap([data |-> d]))

DataBodies ==
    {DataBody(JList(<<>>)),
     DataBody(JList(<<Company(AAPL_CIK)>>)),
     DataBody(JList(<<Company(MSFT_CIK)>>)),
     DataBody(JList(<<Company(MSFT_CIK), Company(AAPL_CIK)>>)),
     DataBody(JList(<<Company(UNPADDED)>>)),
     DataBody(JList(<<JMap([ticker |-> JStr(<<"AAPL">>)])>>)),
     DataBody(Company(AAPL_CIK)),
     DataBody(JNull),
     Json(JMap(EmptyDict)),
     Json(JList(<<Company(AAPL_CIK)>>)),
     NotJson}

ErrorStatuses == {400, 401, 404, 422, 429, 499, 500, 503}

OkStatuses == {200, 399}

RetryAfterHeaders == {NoHeaders, "Retry-After" :> <<"30">>, "Retry-After" :> <<"120">>}

TransportFailures == {Transport("TimeoutException"), Transport("ConnectError"), Transport("ReadError")}

\* every outcome of one request of ThesmaClient.get
Outcomes ==
    TransportFailures
    \cup {Response(s, h, b) : s \in ErrorStatuses, h \in RetryAfterHeaders, b \in ErrorBodies}
    \cup {Response(s, NoHeaders, b) : s \in OkStatuses, b \in DataBodies}

\* what client.get can return or raise to a caller suspended in it
GetResults == {get(TheClient, outcome) : outcome \in Outcomes}

-----------------------------------------------------------------------------
(* One direct call of ThesmaClient.get *)

Paths == {"/v1/test", "/v1/us/sec/companies"}

NoPath == ""

NoOutcome == Transport("none")

NoResult == [kind |-> "none"]

ClientInit ==
    /\ gpc = "idle"
    /\ request = NoPath
    /\ response = NoOutcome
    /\ result = NoResult

\* await self._client.get(path, params=params): the request leaves
GetSend(path) ==
    /\ gpc = "idle"
    /\ gpc' = "sent"
    /\ request' = path
    /\ UNCHANGED <<response, result>>

\* mutant of GetReceive: after a timeout the request is sent again
GetReceive_retry(outcome) ==
    /\ gpc = "sent"
    /\ gpc' = IF outcome.kind = "TimeoutException" THEN "sent" ELSE "done"
    /\ response' = outcome
    /\ result' = get(TheClient, outcome)
    /\ UNCHANGED request

\* the transport answers and get runs to its return or raise
GetReceive(outcome) ==
    /\ gpc = "sent"
    /\ gpc' = "done"
    /\ response' = outcome
    /\ result' = get(TheClient, outcome)
    /\ UNCHANGED request

\* the caller has consumed the result
GetDone ==
    /\ gpc = "done"
    /\ gpc' = "idle"
    /\ request' = NoPath
    /\ response' = NoOutcome
    /\ result' = NoResult

-----------------------------------------------------------------------------
(* ThesmaClient.__init__ and calls on the client it builds *)

Whitespace == {" ", "\t", "\n"}

\* str.lstrip() / str.rstrip() / str.strip(): whitespace characters are dropped from the ends
RECURSIVE lstrip(_)
lstrip(s) == IF s # <<>> /\ Head(s) \in Whitespace THEN lstrip(Tail(s)) ELSE s

RECURSIVE rstrip(_)
rstrip(s) == IF s # <<>> /\ s[Len(s)] \in Whitespace THEN rstrip(SubSeq(s, 1, Len(s) - 1)) ELSE s

strip(s) == rstrip(lstrip(s))

\* mutant of rstrip_slash: one trailing "/" at most is dropped
rstrip_slash_one(s) == IF s # <<>> /\ s[Len(s)] = "/" THEN SubSeq(s, 1, Len(s) - 1) ELSE s

\* str.rstrip("/"): every trailing "/" is dropped
RECURSIVE rstrip_slash(_)
rstrip_slash(s) ==
    IF s # <<>> /\ s[Len(s)] = "/" THEN rstrip_slash(SubSeq(s, 1, Len(s) - 1)) ELSE s

\* a or b
Or(a, b) == IF Truthy(a) THEN a ELSE b

\* os.environ.get(name, default)
environ_get(env, name, default) == IF name \in DOMAIN env THEN JStr(env[name]) ELSE JStr(default)

KeyNotSet == Msg("THESMA_API_KEY not set. Get an API key at https://portal.thesma.dev", <<>>)

\* mutant of ThesmaClient_init: the key is tested for emptiness only
ThesmaClient_init_nostrip(api_key, base_url, env) ==
    LET resolved_key == Or(api_key, environ_get(env, "THESMA_API_KEY", <<>>)) IN
    IF ~Truthy(resolved_key)
    THEN Raise("ThesmaAPIError", KeyNotSet)
    ELSE LET url == rstrip_slash(Or(base_url, environ_get(env, "THESMA_API_URL", <<>>)).v) IN
         Return([base_url |-> IF url # <<>> THEN url ELSE DEFAULT_BASE_URL,
                 authorization |-> Msg("Bearer {}", <<resolved_key.v>>)])

\* mutant of ThesmaClient_init: a whitespace-only api_key falls back to the environment too
ThesmaClient_init_stripfirst(api_key, base_url, env) ==
    LET resolved_key ==
            IF Truthy(api_key) /\ strip(api_key.v) # <<>> THEN api_key
            ELSE environ_get(env, "THESMA_API_KEY", <<>>)
    IN
    IF ~Truthy(resolved_key) \/ strip(resolved_key.v) = <<>>
    THEN Raise("ThesmaAPIError", KeyNotSet)
    ELSE LET url == rstrip_slash(Or(base_url, environ_get(env, "THESMA_API_URL", <<>>)).v) IN
         Return([base_url |-> IF url # <<>> THEN url ELSE DEFAULT_BASE_URL,
                 authorization |-> Msg("Bearer {}", <<resolved_key.v>>)])

\* ThesmaClient(api_key, base_url) under the environment env: the object
\* built, or the error raised before anything is built
ThesmaClient_init(api_key, base_url, env) ==
    LET resolved_key == Or(api_key, environ_get(env, "THESMA_API_KEY", <<>>)) IN
    IF ~Truthy(resolved_key) \/ strip(resolved_key.v) = <<>>
    THEN Raise("ThesmaAPIError", KeyNotSet)
    ELSE LET url == rstrip_slash(Or(base_url, environ_get(env, "THESMA_API_URL", <<>>)).v) IN
         Return([base_url |-> IF url # <<>> THEN url ELSE DEFAULT_BASE_URL,
                 authorization |-> Msg("Bearer {}", <<resolved_key.v>>)])

\* api_key arguments: None, "", whitespace, the fixtures' key, a padded key
ApiKeys ==
    {JNull, JStr(<<>>), JStr(<<" ", "\t">>), JStr(<<"test-key-123">>), JStr(<<" ", "k", "\n">>)}

LOCALHOST == <<"http://localhost:8000">>

\* base_url arguments: None, "", only slashes, with and without trailing slashes
BaseUrls ==
    {JNull, JStr(<<>>), JStr(<<"/">>), JStr(LOCALHOST), JStr(LOCALHOST \o <<"/">>),
     JStr(LOCALHOST \o <<"/", "/">>)}

EnvKeys == {<<>>, <<" ">>, <<"env-key">>}

EnvUrls == {<<"https://staging.thesma.dev", "/">>}

\* the process environment: each variable is unset or holds one of the values above
Environs ==
    {EmptyDict}
    \cup {[THESMA_API_KEY |-> k] : k \in EnvKeys}
    \cup {[THESMA_API_URL |-> u] : u \in EnvUrls}
    \cup {[THESMA_API_KEY |-> k, THESMA_API_URL |-> u] : k \in EnvKeys, u \in EnvUrls}

NoArgs == [api_key |-> JNull, base_url |-> JNull]

ConstructInit ==
    /\ environ = EmptyDict
    /\ init_args = NoArgs
    /\ client = NoResult

\* client = ThesmaClient(api_key=..., base_url=...) in a process whose environment is env
Construct(api_key, base_url, env) ==
    /\ client = NoResult
    /\ environ' = env
    /\ init_args' = [api_key |-> api_key, base_url |-> base_url]
    /\ client' = ThesmaClient_init(api_key, base_url, env)

\* await client.get(path) on the client that was built: the request leaves
ClientGetSend(path) ==
    /\ client.kind = "return"
    /\ GetSend(path)

\* the transport answers and get runs to its return or raise
ClientGetReceive(outcome) ==
    /\ client.kind = "return"
    /\ gpc = "sent"
    /\ gpc' = "done"
    /\ response' = outcome
    /\ result' = get(client.value, outcome)
    /\ UNCHANGED request

\* the test ends: the client, or the error its construction raised, is dropped
Discard ==
    /\ client # NoResult
    /\ gpc = "idle"
    /\ environ' = EmptyDict
    /\ init_args' = NoArgs
    /\ client' = NoResult

-----------------------------------------------------------------------------
(* resolver.py *)

Digits == {"0", "1", "2", "3", "4", "5", "6", "7", "8", "9"}

\* CIK_PATTERN.match(s) for r"^0\d{9}$": "$" also matches before one trailing newline
CIK_PATTERN_match(s) ==
    /\ Len(s) \in {10, 11}
    /\ s[1] = "0"
    /\ \A i \in 2..10 : s[i] \in Digits
    /\ (Len(s) = 11 => s[11] = "\n")

COMPANIES == "/v1/us/sec/companies"

NoRequest == [path |-> NoPath, params |-> EmptyDict]

\* mutant of NotFound: the message names the upper-cased cache key
NotFound_upper(input) ==
    Msg("No company found for ticker '{}'. Try searching with search_companies.", <<upper(input)>>)

NotFound(input) ==
    Msg("No company found for ticker '{}'. Try searching with search_companies.", <<input>>)

\* data[0]
Index0(data) ==
    CASE data.t = "list" -> Return(data.v[1])
      [] data.t = "str" -> Return(JStr(<<data.v[1]>>))
      [] data.t = "map" -> Raise("KeyError", NoMessage)

\* x["cik"]
Subscript(x, key) ==
    IF x.t = "map"
    THEN IF key \in DOMAIN x.v THEN Return(x.v[key]) ELSE Raise("KeyError", NoMessage)
    ELSE Raise("TypeError", NoMessage)

\* self._cache[cache_key] = cik
CacheSet(c, key, cik) == [k \in DOMAIN c \cup {key} |-> IF k = key THEN cik ELSE c[k]]

\* mutant of resolve_begin: the passthrough check is missing
resolve_begin_nopassthrough(c, input) ==
    LET cache_key == upper(input) IN
    IF cache_key \in DOMAIN c
    THEN [suspended |-> FALSE, ret |-> Return(c[cache_key]), request |-> NoRequest]
    ELSE [suspended |-> TRUE, ret |-> NoResult,
          request |-> [path |-> COMPANIES, params |-> [ticker |-> cache_key]]]

\* mutant of resolve_begin: the cache is probed with the input as given
resolve_begin_rawkey(c, input) ==
    IF CIK_PATTERN_match(input)
    THEN [suspended |-> FALSE, ret |-> Return(JStr(input)), request |-> NoRequest]
    ELSE IF input \in DOMAIN c
         THEN [suspended |-> FALSE, ret |-> Return(c[input]), request |-> NoRequest]
         ELSE [suspended |-> TRUE, ret |-> NoResult,
               request |-> [path |-> COMPANIES, params |-> [ticker |-> upper(input)]]]

\* resolve up to its first suspension: lines 25-32.  Either the call is over
\* (ret is what it returned) or it is suspended in client.get (request in flight).
resolve_begin(c, input) ==
    IF CIK_PATTERN_match(input)
    THEN [suspended |-> FALSE, ret |-> Return(JStr(input)), request |-> NoRequest]
    ELSE LET cache_key == upper(input) IN
         IF cache_key \in DOMAIN c
         THEN [suspended |-> FALSE, ret |-> Return(c[cache_key]), request |-> NoRequest]
         ELSE [suspended |-> TRUE, ret |-> NoResult,
               request |-> [path |-> COMPANIES, params |-> [ticker |-> cache_key]]]

\* mutant of resolve_end: an empty result is remembered (negative caching)
resolve_end_negcache(c, input, got) ==
    IF got.kind = "raise" THEN [ret |-> got, cache |-> c]
    ELSE LET resp == got.value IN
         IF ~HasGet(resp) THEN [ret |-> Raise("AttributeError", NoMessage), cache |-> c]
         ELSE LET data == DictGet(resp, "data", JList(<<>>)) IN
              IF ~Truthy(data)
              THEN [ret |-> Raise("ThesmaAPIError", NotFound(input)),
                    cache |-> CacheSet(c, upper(input), JNull)]
              ELSE IF Index0(data).kind = "raise" THEN [ret |-> Index0(data), cache |-> c]
              ELSE LET cik == Subscript(Index0(data).value, "cik") IN
                   IF cik.kind = "raise" THEN [ret |-> cik, cache |-> c]
                   ELSE [ret |-> Return(cik.value), cache |-> CacheSet(c, upper(input), cik.value)]

\* mutant of resolve_end: every failure of the lookup is reported as "not found"
resolve_end_collapse(c, input, got) ==
    IF got.kind = "raise" THEN [ret |-> Raise("ThesmaAPIError", NotFound(input)), cache |-> c]
    ELSE LET resp == got.value IN
         IF ~HasGet(resp) THEN [ret |-> Raise("AttributeError", NoMessage), cache |-> c]
         ELSE LET data == DictGet(resp, "data", JList(<<>>)) IN
              IF ~Truthy(data)
              THEN [ret |-> Raise("ThesmaAPIError", NotFound(input)), cache |-> c]
              ELSE IF Index0(data).kind = "raise" THEN [ret |-> Index0(data), cache |-> c]
              ELSE LET cik == Subscript(Index0(data).value, "cik") IN
                   IF cik.kind = "raise" THEN [ret |-> cik, cache |-> c]
                   ELSE [ret |-> Return(cik.value), cache |-> CacheSet(c, upper(input), cik.value)]

\* mutant of resolve_end: a lookup that completes after the key was cached is an error
resolve_end_single(c, input, got) ==
    IF got.kind = "raise" THEN [ret |-> got, cache |-> c]
    ELSE LET resp == got.value IN
         IF ~HasGet(resp) THEN [ret |-> Raise("AttributeError", NoMessage), cache |-> c]
         ELSE LET data == DictGet(resp, "data", JList(<<>>)) IN
              IF ~Truthy(data)
              THEN [ret |-> Raise("ThesmaAPIError", NotFound(input)), cache |-> c]
              ELSE IF Index0(data).kind = "raise" THEN [ret |-> Index0(data), cache |-> c]
              ELSE LET cik == Subscript(Index0(data).value, "cik") IN
                   IF cik.kind = "raise" THEN [ret |-> cik, cache |-> c]
                   ELSE IF upper(input) \in DOMAIN c
                        THEN [ret |-> Raise("RuntimeError", NoMessage), cache |-> c]
                        ELSE [ret |-> Return(cik.value),
                              cache |-> CacheSet(c, upper(input), cik.value)]

\* mutant of resolve_end: the entry is stored under the input as given
resolve_end_rawstore(c, input, got) ==
    IF got.kind = "raise" THEN [ret |-> got, cache |-> c]
    ELSE LET resp == got.value IN
         IF ~HasGet(resp) THEN [ret |-> Raise("AttributeError", NoMessage), cache |-> c]
         ELSE LET data == DictGet(resp, "data", JList(<<>>)) IN
              IF ~Truthy(data)
              THEN [ret |-> Raise("ThesmaAPIError", NotFound(input)), cache |-> c]
              ELSE IF Index0(data).kind = "raise" THEN [ret |-> Index0(data), cache |-> c]
              ELSE LET cik == Subscript(Index0(data).value, "cik") IN
                   IF cik.kind = "raise" THEN [ret |-> cik, cache |-> c]
                   ELSE [ret |-> Return(cik.value), cache |-> CacheSet(c, input, cik.value)]

\* mutant of resolve_end: the cache is replaced by the new entry alone
resolve_end_reset(c, input, got) ==
    IF got.kind = "raise" THEN [ret |-> got, cache |-> c]
    ELSE LET resp == got.value IN
         IF ~HasGet(resp) THEN [ret |-> Raise("AttributeError", NoMessage), cache |-> c]
         ELSE LET data == DictGet(resp, "data", JList(<<>>)) IN
              IF ~Truthy(data)
              THEN [ret |-> Raise("ThesmaAPIError", NotFound(input)), cache |-> c]
              ELSE IF Index0(data).kind = "raise" THEN [ret |-> Index0(data), cache |-> c]
              ELSE LET cik == Subscript(Index0(data).value, "cik") IN
                   IF cik.kind = "raise" THEN [ret |-> cik, cache |-> c]
                   ELSE [ret |-> Return(cik.value),
                         cache |-> CacheSet(EmptyDict, upper(input), cik.value)]

\* resolve from the completion of client.get to its end: lines 32-40.
\* got is what get returned or raised; the value is <<what resolve returns or raises, the cache>>.
resolve_end(c, input, got) ==
    IF got.kind = "raise" THEN [ret |-> got, cache |-> c]
    ELSE LET resp == got.value IN
         IF ~HasGet(resp) THEN [ret |-> Raise("AttributeError", NoMessage), cache |-> c]
         ELSE LET data == DictGet(resp, "data", JList(<<>>)) IN
              IF ~Truthy(data)
              THEN [ret |-> Raise("ThesmaAPIError", NotFound(input)), cache |-> c]
              ELSE IF Index0(data).kind = "raise" THEN [ret |-> Index0(data), cache |-> c]
              ELSE LET cik == Subscript(Index0(data).value, "cik") IN
                   IF cik.kind = "raise" THEN [ret |-> cik, cache |-> c]
                   ELSE [ret |-> Return(cik.value), cache |-> CacheSet(c, upper(input), cik.value)]

-----------------------------------------------------------------------------
(* Concurrent resolve calls on one TickerResolver *)

MaxTasks == 2

Tasks == 1..MaxTasks

AAPL == <<"A", "A", "P", "L">>

aapl == <<"a", "a", "p", "l">>

Tickers == {AAPL, aapl, UNPADDED}

Ciks == {AAPL_CIK, AAPL_CIK \o <<"\n">>}

Inputs == Tickers \cup Ciks

NoInput == <<>>

NoCall == [task |-> 0, input |-> NoInput, calls |-> 0, got |-> NoResult, ret |-> NoResult]

ResolverInit ==
    /\ cache = EmptyDict
    /\ pc = [t \in Tasks |-> "idle"]
    /\ ticker_or_cik = [t \in Tasks |-> NoInput]
    /\ lookup = [t \in Tasks |-> NoRequest]
    /\ last = NoCall
    /\ firstId = EmptyDict

\* a caller awaits resolver.resolve(input): the coroutine runs to its first
\* suspension, which is the lookup request, or to its end when it needs none
Resolve(t, input) ==
    LET b == resolve_begin(cache, input) IN
    /\ pc[t] = "idle"
    /\ IF b.suspended
       THEN /\ pc' = [pc EXCEPT ![t] = "awaiting"]
            /\ ticker_or_cik' = [ticker_or_cik EXCEPT ![t] = input]
            /\ lookup' = [lookup EXCEPT ![t] = b.request]
            /\ UNCHANGED last
       ELSE /\ last' = [task |-> t, input |-> input, calls |-> 0, got |-> NoResult, ret |-> b.ret]
            /\ UNCHANGED <<pc, ticker_or_cik, lookup>>
    /\ UNCHANGED <<cache, firstId>>

\* client.get, awaited by coroutine t, returns or raises got and resolve runs to its end
Complete(t, got) ==
    LET input == ticker_or_cik[t]
        e == resolve_end(cache, input, got)
        key == upper(input)
    IN
    /\ pc[t] = "awaiting"
    /\ pc' = [pc EXCEPT ![t] = "idle"]
    /\ ticker_or_cik' = [ticker_or_cik EXCEPT ![t] = NoInput]
    /\ lookup' = [lookup EXCEPT ![t] = NoRequest]
    /\ cache' = e.cache
    /\ last' = [task |-> t, input |-> input, calls |-> 1, got |-> got, ret |-> e.ret]
    /\ firstId' = IF e.ret.kind = "return" /\ key \notin DOMAIN firstId
                  THEN CacheSet(firstId, key, e.ret.value)
                  ELSE firstId

-----------------------------------------------------------------------------
(* One caller of resolve, down to the HTTP requests of the client *)

\* a caller awaits resolver.resolve(input): resolve runs to its lookup, and
\* client.get to the point where its HTTP request has left, or resolve ends
\* at once and nothing is sent
CoreResolve(t, input) ==
    /\ \A u \in Tasks : pc[u] = "idle"
    /\ Resolve(t, input)
    /\ IF resolve_begin(cache, input).suspended
       THEN GetSend(resolve_begin(cache, input).request.path)
       ELSE gpc = "idle" /\ UNCHANGED clientVars

\* the transport answers: client.get runs to its return or raise, and
\* resolve, which awaits it, to its end
CoreReceive(t, outcome) ==
    /\ GetReceive(outcome)
    /\ Complete(t, get(TheClient, outcome))

-----------------------------------------------------------------------------
(* tools/*.py: the handlers, as the requests they issue and what they return *)

\* one thing a handler did: called resolver.resolve(arg) ("resolve"), had
\* that call end ("resolved"), or issued client.get(path, params) ("get")
Ev(kind, path, params, arg, ok) ==
    [ev |-> kind, path |-> path, params |-> params, arg |-> arg, ok |-> ok]

NoPathMsg == Msg("", <<>>)

ResolveEv(arg) == Ev("resolve", NoPathMsg, EmptyDict, arg, FALSE)

\* the resolve call ended with ret: ok when it returned, arg the identifier
ResolvedEv(ret) ==
    Ev("resolved", NoPathMsg, EmptyDict,
       IF ret.kind = "return" THEN PyStr(ret.value) ELSE <<>>, ret.kind = "return")

GetEv(path, params) == Ev("get", path, params, <<>>, FALSE)

\* the local variables a handler keeps across its awaits
Locals(cik, company_name) == [cik |-> cik, company_name |-> company_name]

NoLocals == Locals(JNull, JNull)

\* the handler is suspended at position pos in a client.get it has just issued
Await(pos, evs, loc, c) ==
    [tpc |-> pos, events |-> evs, ret |-> NoResult, locals |-> loc, cache |-> c]

\* the handler has returned or raised ret
Finish(evs, ret, c) ==
    [tpc |-> "done", events |-> evs, ret |-> ret, locals |-> NoLocals, cache |-> c]

\* d[k] = v
DictSet(d, k, v) == [x \in DOMAIN d \cup {k} |-> IF x = k THEN v ELSE d[x]]

\* if v: d[k] = v
SetIfTruthy(d, k, v) == IF Truthy(v) THEN DictSet(d, k, v) ELSE d

\* if v is not None: d[k] = v
SetIfNotNone(d, k, v) == IF v # JNull THEN DictSet(d, k, v) ELSE d

\* mutant of Min: the first argument, whatever the second
Min_uncapped(a, b) == a

\* min(a, b)
Min(a, b) == IF a < b THEN a ELSE b

\* the output of a module's table or statement formatter for the data it is given
Rendered(formatter, data) == Msg(formatter, <<data>>)

\* financials.py: _validate_period_quarter
_validate_period_quarter(period, quarter) ==
    IF period = JStr(<<"quarterly">>) /\ quarter = JNull
    THEN Msg("Quarter (1-4) is required when period is 'quarterly'.", <<>>)
    ELSE IF period = JStr(<<"annual">>) /\ quarter # JNull
         THEN Msg("Quarter should not be specified when period is 'annual'.", <<>>)
         ELSE NoMessage

STATEMENT_TITLES ==
    ("income" :> <<"Income Statement">>) @@ ("balance-sheet" :> <<"Balance Sheet">>)
        @@ ("cash-flow" :> <<"Cash Flow">>)

\* events.py: VALID_CATEGORIES
VALID_CATEGORIES ==
    {<<"earnings">>, <<"ma">>, <<"leadership">>, <<"agreements">>, <<"governance">>,
     <<"accounting">>, <<"distress">>, <<"regulatory">>, <<"other">>}

\* events.py: DATE_PATTERN.match(s) for r"^\d{4}-\d{2}-\d{2}$"
DATE_PATTERN_match(s) ==
    /\ Len(s) \in {10, 11}
    /\ \A i \in {1, 2, 3, 4, 6, 7, 9, 10} : s[i] \in Digits
    /\ s[5] = "-"
    /\ s[8] = "-"
    /\ (Len(s) = 11 => s[11] = "\n")

\* events.py: _validate_date
_validate_date(value) ==
    IF ~DATE_PATTERN_match(value)
    THEN Msg("Invalid date format '{}'. Expected YYYY-MM-DD.", <<value>>)
    ELSE NoMessage

\* screener.py: VALID_SORT_FIELDS
VALID_SORT_FIELDS ==
    {<<"gross_margin">>, <<"operating_margin">>, <<"net_margin">>, <<"return_on_equity">>,
     <<"return_on_assets">>, <<"debt_to_equity">>, <<"current_ratio">>, <<"interest_coverage">>,
     <<"revenue_growth_yoy">>, <<"net_income_growth_yoy">>, <<"eps_growth_yoy">>}

ProvideExactlyOne ==
    Msg("Provide exactly one of 'ticker' or 'fund_name'. Use ticker to see which funds changed positions, or fund_name to see what positions changed.",
        <<>>)

\* insider_trades.py: VALID_TYPES
VALID_TYPES == {<<"purchase">>, <<"sale">>, <<"grant">>, <<"exercise">>}

\* financials.py: the keys of INCOME_FIELDS, BALANCE_SHEET_FIELDS and
\* CASH_FLOW_FIELDS, and the two share counts
VALID_METRICS ==
    {<<"revenue">>, <<"cost_of_revenue">>, <<"gross_profit">>, <<"operating_expenses">>,
     <<"research_and_development">>, <<"selling_general_admin">>, <<"operating_income">>,
     <<"interest_expense">>, <<"interest_income">>, <<"pre_tax_income">>,
     <<"income_tax_expense">>, <<"net_income">>, <<"eps_basic">>, <<"eps_diluted">>,
     <<"total_assets">>, <<"current_assets">>, <<"cash_and_equivalents">>,
     <<"accounts_receivable">>, <<"inventory">>, <<"non_current_assets">>,
     <<"property_plant_equipment">>, <<"goodwill">>, <<"intangible_assets">>,
     <<"total_liabilities">>, <<"current_liabilities">>, <<"accounts_payable">>,
     <<"short_term_debt">>, <<"non_current_liabilities">>, <<"long_term_debt">>,
     <<"total_equity">>, <<"common_shares_outstanding">>,
     <<"operating_cash_flow">>, <<"investing_cash_flow">>, <<"financing_cash_flow">>,
     <<"net_change_in_cash">>, <<"capital_expenditures">>, <<"dividends_paid">>,
     <<"share_repurchases">>, <<"shares_basic">>, <<"shares_diluted">>}

\* ratios.py: VALID_RATIOS
VALID_RATIOS ==
    {<<"gross_margin">>, <<"operating_margin">>, <<"net_margin">>, <<"return_on_equity">>,
     <<"return_on_assets">>, <<"debt_to_equity">>, <<"current_ratio">>, <<"interest_coverage">>,
     <<"revenue_growth_yoy">>, <<"net_income_growth_yoy">>, <<"eps_growth_yoy">>}

\* ratios.py: its own _validate_period_quarter
ratios_validate_period_quarter(period, quarter) ==
    IF period = JStr(<<"quarterly">>) /\ quarter = JNull
    THEN Msg("Quarter (1-4) is required when period is 'quarterly'.", <<>>)
    ELSE IF period = JStr(<<"annual">>) /\ quarter # JNull
         THEN Msg("Quarter should not be specified when period is 'annual'.", <<>>)
         ELSE NoMessage

\* mutant of events_ticker: the ticker is used as given
events_ticker_asgiven(ticker) == ticker

\* get_events, lines 63-65, and get_insider_trades, lines 69-71: an empty or
\* whitespace-only ticker is None
events_ticker(ticker) == IF ticker # JNull /\ strip(ticker.v) = <<>> THEN JNull ELSE ticker

\* the validation a handler runs before it touches the resolver or the
\* client: the message it returns, or NoMessage when the parameters pass
validate(inv) ==
    LET a == inv.args IN
    CASE inv.name = "get_financials" -> _validate_period_quarter(a.period, a.quarter)
      [] inv.name = "get_events" ->
            IF Truthy(a.category) /\ a.category.v \notin VALID_CATEGORIES
            THEN Msg("Invalid category '{}'. Valid categories: {}.",
                     <<a.category.v, <<"accounting, agreements, distress, earnings, governance, leadership, ma, other, regulatory">>>>)
            ELSE IF Truthy(a.from_date) /\ _validate_date(a.from_date.v) # NoMessage
                 THEN _validate_date(a.from_date.v)
                 ELSE IF Truthy(a.to_date) THEN _validate_date(a.to_date.v) ELSE NoMessage
      [] inv.name = "screen_companies" ->
            LET sort == DictGet(JMap(a.params), "sort", JNull) IN
            IF Truthy(sort) /\ sort.v \notin VALID_SORT_FIELDS
            THEN Msg("Invalid sort field '{}'. Valid fields: {}",
                     <<sort.v, <<"current_ratio, debt_to_equity, eps_growth_yoy, gross_margin, interest_coverage, net_income_growth_yoy, net_margin, operating_margin, return_on_assets, return_on_equity, revenue_growth_yoy">>>>)
            ELSE NoMessage
      [] inv.name = "get_holding_changes" ->
            IF (Truthy(a.ticker) /\ Truthy(a.fund_name)) \/ (~Truthy(a.ticker) /\ ~Truthy(a.fund_name))
            THEN ProvideExactlyOne
            ELSE NoMessage
      [] inv.name = "get_insider_trades" ->
            IF Truthy(a.type) /\ a.type.v \notin VALID_TYPES
            THEN Msg("Invalid type '{}'. Valid types: {}.", <<a.type.v, <<"exercise, grant, purchase, sale">>>>)
            ELSE IF Truthy(a.from_date) /\ _validate_date(a.from_date.v) # NoMessage
                 THEN _validate_date(a.from_date.v)
                 ELSE IF Truthy(a.to_date) THEN _validate_date(a.to_date.v) ELSE NoMessage
      [] inv.name = "get_financial_metric" ->
            IF a.metric.v \notin VALID_METRICS
            THEN Msg("Invalid metric '{}'. Valid metrics are: {}",
                     <<a.metric.v, 
                       <<"accounts_payable, accounts_receivable, capital_expenditures, cash_and_equivalents, common_shares_outstanding, cost_of_revenue, current_assets, current_liabilities, dividends_paid, eps_basic, eps_diluted, financing_cash_flow, goodwill, gross_profit, income_tax_expense, intangible_assets, interest_expense, interest_income, inventory, investing_cash_flow, long_term_debt, net_change_in_cash, net_income, non_current_assets, non_current_liabilities, operating_cash_flow, operating_expenses, operating_income, pre_tax_income, property_plant_equipment, research_and_development, revenue, selling_general_admin, share_repurchases, shares_basic, shares_diluted, short_term_debt, total_assets, total_equity, total_liabilities">>>>)
            ELSE NoMessage
      [] inv.name = "get_ratios" -> ratios_validate_period_quarter(a.period, a.quarter)
      [] inv.name = "get_ratio_history" ->
            IF a.ratio.v \notin VALID_RATIOS
            THEN Msg("Invalid ratio '{}'. Valid ratios are: {}",
                     <<a.ratio.v, 
                       <<"current_ratio, debt_to_equity, eps_growth_yoy, gross_margin, interest_coverage, net_income_growth_yoy, net_margin, operating_margin, return_on_assets, return_on_equity, revenue_growth_yoy">>>>)
            ELSE NoMessage
      [] OTHER -> NoMessage

\* the argument the handler passes to resolver.resolve, or None when it resolves no ticker
resolved_ticker(inv) ==
    LET a == inv.args IN
    CASE inv.name \in {"get_company", "get_financials", "get_institutional_holders",
                       "get_financial_metric", "get_ratios", "get_ratio_history"} -> a.ticker
      [] inv.name \in {"get_events", "get_insider_trades"} ->
            IF Truthy(events_ticker(a.ticker)) THEN events_ticker(a.ticker) ELSE JNull
      [] inv.name \in {"get_holding_changes", "search_filings"} ->
            IF Truthy(a.ticker) THEN a.ticker ELSE JNull
      [] OTHER -> JNull

\* screener.py lines 214-222: the filters that are not None, booleans only when true
api_params(params, limit) ==
    LET sent == {k \in DOMAIN params :
                    /\ params[k] # JNull
                    /\ (k \in {"has_insider_buying", "has_institutional_increase"} => Truthy(params[k]))}
    IN [k \in sent \cup {"per_page"} |->
            IF k = "per_page" THEN JInt(Min(limit, 50))
            ELSE IF k \in {"has_insider_buying", "has_institutional_increase"} THEN JStr(<<"true">>)
            ELSE params[k]]

\* the path of the handler's data request, for the identifier it resolved
data_path(inv, cik) ==
    CASE inv.name = "get_company" -> Msg("/v1/us/sec/companies/{}", <<PyStr(cik)>>)
      [] inv.name = "get_financials" -> Msg("/v1/us/sec/companies/{}/financials", <<PyStr(cik)>>)
      [] inv.name = "get_events" ->
            IF resolved_ticker(inv) # JNull
            THEN Msg("/v1/us/sec/companies/{}/events", <<PyStr(cik)>>)
            ELSE Msg("/v1/us/sec/events", <<>>)
      [] inv.name = "screen_companies" -> Msg("/v1/us/sec/screener", <<>>)
      [] inv.name = "get_holding_changes" ->
            IF resolved_ticker(inv) # JNull
            THEN Msg("/v1/us/sec/companies/{}/institutional-changes", <<PyStr(cik)>>)
            ELSE Msg("/v1/us/sec/funds/{}/holding-changes", <<PyStr(cik)>>)
      [] inv.name = "get_insider_trades" ->
            IF resolved_ticker(inv) # JNull
            THEN Msg("/v1/us/sec/companies/{}/insider-trades", <<PyStr(cik)>>)
            ELSE Msg("/v1/us/sec/insider-trades", <<>>)
      [] inv.name = "search_funds" -> Msg("/v1/us/sec/funds", <<>>)
      [] inv.name = "get_institutional_holders" ->
            Msg("/v1/us/sec/companies/{}/institutional-holders", <<PyStr(cik)>>)
      [] inv.name = "get_fund_holdings" -> Msg("/v1/us/sec/funds/{}/holdings", <<PyStr(cik)>>)
      [] inv.name = "search_filings" -> Msg("/v1/us/sec/filings", <<>>)
      [] inv.name = "get_financial_metric" ->
            Msg("/v1/us/sec/companies/{}/financials/{}", <<PyStr(cik), inv.args.metric.v>>)
      [] inv.name = "get_ratios" -> Msg("/v1/us/sec/companies/{}/ratios", <<PyStr(cik)>>)
      [] inv.name = "get_ratio_history" ->
            Msg("/v1/us/sec/companies/{}/ratios/{}", <<PyStr(cik), inv.args.ratio.v>>)

\* the query parameters of the handler's data request, cik being the
\* identifier it resolved (None when it resolved none)
data_params(inv, cik) ==
    LET a == inv.args IN
    CASE inv.name = "get_company" -> EmptyDict
      [] inv.name = "get_financials" ->
            SetIfNotNone(SetIfNotNone([statement |-> a.statement, period |-> a.period],
                                      "year", a.year),
                         "quarter", a.quarter)
      [] inv.name = "get_events" ->
            SetIfTruthy(SetIfTruthy(SetIfTruthy([per_page |-> JInt(Min(a.limit, 50))],
                                                "category", a.category),
                                    "from", a.from_date),
                        "to", a.to_date)
      [] inv.name = "screen_companies" -> api_params(a.params, a.limit)
      [] inv.name = "get_holding_changes" ->
            SetIfTruthy(SetIfTruthy([per_page |-> JInt(Min(a.limit, 50))], "quarter", a.quarter),
                        "change", a.change)
      [] inv.name = "get_insider_trades" ->
            LET params ==
                    SetIfTruthy(SetIfTruthy(SetIfTruthy([per_page |-> JInt(Min(a.limit, 50))],
                                                        "type", a.type),
                                            "from", a.from_date),
                                "to", a.to_date)
            IN IF resolved_ticker(inv) # JNull THEN params
               ELSE SetIfNotNone(params, "min_value", a.min_value)
      [] inv.name = "search_funds" -> [search |-> a.query, per_page |-> JInt(Min(a.limit, 50))]
      [] inv.name = "get_institutional_holders" ->
            SetIfTruthy([per_page |-> JInt(Min(a.limit, 50))], "quarter", a.quarter)
      [] inv.name = "get_fund_holdings" ->
            LET params == SetIfTruthy([per_page |-> JInt(Min(a.limit, 50))], "quarter", a.quarter)
            IN IF a.position_type # JStr(<<"all">>)
               THEN DictSet(params, "position_type", a.position_type)
               ELSE params
      [] inv.name = "search_filings" ->
            SetIfTruthy(SetIfTruthy(SetIfTruthy(
                IF resolved_ticker(inv) # JNull
                THEN [per_page |-> JInt(Min(a.limit, 50)), cik |-> cik]
                ELSE [per_page |-> JInt(Min(a.limit, 50))],
                "type", a.type), "from", a.from_date), "to", a.to_date)
      [] inv.name \in {"get_financial_metric", "get_ratio_history"} ->
            SetIfNotNone(SetIfNotNone([period |-> a.period], "from", a.from_year),
                         "to", a.to_year)
      [] inv.name = "get_ratios" ->
            SetIfNotNone(SetIfNotNone([period |-> a.period], "year", a.year),
                         "quarter", a.quarter)

\* the handlers that wrap their resolve and get calls in "except ThesmaAPIError as e: return str(e)"
Catching ==
    {"get_company", "get_financials", "get_holding_changes", "get_institutional_holders",
     "get_fund_holdings", "search_filings", "get_financial_metric", "get_ratios",
     "get_ratio_history"}

\* an exception leaves an await of the handler: str(e) is returned where the
\* handler catches ThesmaAPIError, the exception propagates otherwise
on_error(inv, exc, evs, c) ==
    IF inv.name \in Catching /\ exc.type = "ThesmaAPIError"
    THEN Finish(evs, Return(exc.message), c)
    ELSE Finish(evs, exc, c)

\* response = await app.client.get(path, params=params): the data request leaves
data_call(inv, loc, evs, c) ==
    Await("data", evs \o <<GetEv(data_path(inv, loc.cik), data_params(inv, loc.cik))>>, loc, c)

\* mutant of after_resolve: a failed resolution is ignored and the data
\* request goes out for the ticker as given
after_resolve_ignore(inv, ret, evs, c) ==
    IF ret.kind = "raise" THEN data_call(inv, Locals(resolved_ticker(inv), JNull), evs, c)
    ELSE IF inv.name \in {"get_events", "get_insider_trades"}
         THEN Await("company",
                    evs \o <<GetEv(Msg("/v1/us/sec/companies/{}", <<PyStr(ret.value)>>), EmptyDict)>>,
                    Locals(ret.value, JNull), c)
         ELSE data_call(inv, Locals(ret.value, JNull), evs, c)

\* the handler after "cik = await app.resolver.resolve(ticker)" has ended with ret
after_resolve(inv, ret, evs, c) ==
    IF ret.kind = "raise" THEN on_error(inv, ret, evs, c)
    ELSE IF inv.name \in {"get_events", "get_insider_trades"}
         THEN Await("company",
                    evs \o <<GetEv(Msg("/v1/us/sec/companies/{}", <<PyStr(ret.value)>>), EmptyDict)>>,
                    Locals(ret.value, JNull), c)
         ELSE data_call(inv, Locals(ret.value, JNull), evs, c)

\* cik = await app.resolver.resolve(ticker), up to the lookup request or, when
\* the resolver needs none, on to the handler's next request
resolve_call(inv, c) ==
    LET ticker == resolved_ticker(inv).v
        b == resolve_begin(c, ticker)
    IN
    IF b.suspended
    THEN Await("lookup",
               <<ResolveEv(ticker),
                 GetEv(Msg(b.request.path, <<>>), [ticker |-> JStr(b.request.params.ticker)])>>,
               NoLocals, c)
    ELSE after_resolve(inv, b.ret, <<ResolveEv(ticker), ResolvedEv(b.ret)>>, c)

NoFund(fund_name) ==
    Msg("No fund found matching '{}'. Try a different name or use the fund's CIK directly.",
        <<fund_name>>)

\* mutant of fund_call: the fund is searched for whatever its form
fund_call_search(inv, c) ==
    Await("fund_search",
          <<GetEv(Msg("/v1/us/sec/funds", <<>>), [search |-> JStr(inv.args.fund_name.v)])>>,
          NoLocals, c)

\* holdings.py: _resolve_fund_cik up to its search request, lines 21-24
fund_call(inv, c) ==
    LET fund_name == inv.args.fund_name.v IN
    IF CIK_PATTERN_match(fund_name)
    THEN data_call(inv, Locals(JStr(fund_name), JNull), <<>>, c)
    ELSE Await("fund_search",
               <<GetEv(Msg("/v1/us/sec/funds", <<>>), [search |-> JStr(fund_name)])>>, NoLocals, c)

\* holdings.py: _resolve_fund_cik from the answer of its search, lines 24-31
after_fund_search(inv, got, c) ==
    IF got.kind = "raise" THEN on_error(inv, got, <<>>, c)
    ELSE IF ~HasGet(got.value) THEN Finish(<<>>, Raise("AttributeError", NoMessage), c)
    ELSE LET data == DictGet(got.value, "data", JList(<<>>)) IN
         IF ~Truthy(data)
         THEN on_error(inv, Raise("ThesmaAPIError", NoFund(inv.args.fund_name.v)), <<>>, c)
         ELSE IF Index0(data).kind = "raise" THEN Finish(<<>>, Index0(data), c)
         ELSE LET cik == Subscript(Index0(data).value, "cik") IN
              IF cik.kind = "raise" THEN Finish(<<>>, cik, c)
              ELSE data_call(inv, Locals(cik.value, JNull), <<>>, c)

\* get_events lines 98-105, get_insider_trades lines 104-108: the company
\* record for the header has arrived
after_company(inv, loc, got, c) ==
    IF got.kind = "raise" THEN on_error(inv, got, <<>>, c)
    ELSE IF ~HasGet(got.value) THEN Finish(<<>>, Raise("AttributeError", NoMessage), c)
    ELSE LET company_data == DictGet(got.value, "data", JMap(EmptyDict)) IN
         IF ~HasGet(company_data) THEN Finish(<<>>, Raise("AttributeError", NoMessage), c)
         ELSE data_call(inv,
                        Locals(loc.cik, DictGet(company_data, "name", resolved_ticker(inv))),
                        <<>>, c)

\* data = response.get("data", []); total = pagination.get("total", len(data));
\* if not data: return empty_text; the table otherwise
render_list(resp, empty_text, formatter) ==
    LET data == DictGet(resp, "data", JList(<<>>)) IN
    IF data.t \notin {"list", "map", "str"} THEN Raise("TypeError", NoMessage)
    ELSE IF ~Truthy(data) THEN Return(empty_text)
    ELSE Return(Rendered(formatter, data))

\* what the handler makes of the response of its data request
render(inv, loc, resp) ==
    LET a == inv.args IN
    IF ~HasGet(resp) THEN Raise("AttributeError", NoMessage)
    ELSE CASE inv.name = "get_company" ->
                IF ~HasGet(DictGet(resp, "data", JMap(EmptyDict)))
                THEN Raise("AttributeError", NoMessage)
                ELSE Return(Rendered("get_company", DictGet(resp, "data", JMap(EmptyDict))))
           [] inv.name = "get_financials" ->
                LET data == DictGet(resp, "data", JMap(EmptyDict)) IN
                IF ~Truthy(data)
                THEN Return(Msg("No financial data found for this company. The company may not have filed a {} yet.",
                                <<IF a.statement.v[1] \in DOMAIN STATEMENT_TITLES
                                  THEN STATEMENT_TITLES[a.statement.v[1]]
                                  ELSE a.statement.v>>))
                ELSE Return(Rendered("_format_statement", data))
           [] inv.name = "get_events" ->
                render_list(resp,
                            Msg("No events found{}{}. Try adjusting your filters.",
                                <<IF Truthy(loc.company_name)
                                  THEN <<" for ">> \o PyStr(loc.company_name)
                                  ELSE <<>>,
                                  IF Truthy(a.category)
                                  THEN <<" in category '">> \o a.category.v \o <<"'">>
                                  ELSE <<>>>>),
                            "get_events")
           [] inv.name = "screen_companies" ->
                render_list(resp,
                            Msg("No companies matched the specified criteria. Try broadening your filters.", <<>>),
                            "screen_companies")
           [] inv.name = "get_holding_changes" ->
                IF resolved_ticker(inv) # JNull
                THEN render_list(resp,
                                 Msg("No position changes found for this company in the selected quarter.", <<>>),
                                 "_format_changes_by_ticker")
                ELSE render_list(resp,
                                 Msg("No position changes found for this fund in the selected quarter.", <<>>),
                                 "_format_changes_by_fund")
           [] inv.name = "get_insider_trades" ->
                render_list(resp,
                            Msg("No insider trades found{}{}. Try adjusting your filters.",
                                <<IF Truthy(loc.company_name)
                                  THEN <<" for ">> \o PyStr(loc.company_name)
                                  ELSE <<>>,
                                  IF Truthy(a.type)
                                  THEN <<" of type '">> \o a.type.v \o <<"'">>
                                  ELSE <<>>>>),
                            "get_insider_trades")
           [] inv.name = "search_funds" ->
                render_list(resp,
                            Msg("No funds found matching \"{}\". Try a different name.", <<a.query.v>>),
                            "search_funds")
           [] inv.name = "get_institutional_holders" ->
                render_list(resp, Msg("No institutional holders found for this company.", <<>>),
                            "get_institutional_holders")
           [] inv.name = "get_fund_holdings" ->
                render_list(resp, Msg("No holdings found for this fund.", <<>>), "get_fund_holdings")
           [] inv.name = "search_filings" ->
                render_list(resp, Msg("No filings found matching the search criteria.", <<>>),
                            "search_filings")
           [] inv.name = "get_financial_metric" ->
                render_list(resp,
                            Msg("No data found for metric '{}'. The company may not report this field.",
                                <<a.metric.v>>),
                            "get_financial_metric")
           [] inv.name = "get_ratios" ->
                IF ~Truthy(DictGet(resp, "data", JMap(EmptyDict)))
                THEN Return(Msg("No ratio data found for this company.", <<>>))
                ELSE Return(Rendered("get_ratios", DictGet(resp, "data", JMap(EmptyDict))))
           [] inv.name = "get_ratio_history" ->
                render_list(resp, Msg("No data found for ratio '{}'.", <<a.ratio.v>>),
                            "get_ratio_history")

\* the handler after its data request has ended with got
after_data(inv, loc, got, c) ==
    IF got.kind = "raise" THEN on_error(inv, got, <<>>, c)
    ELSE Finish(<<>>, render(inv, loc, got.value), c)

NoCompanies(query) ==
    Msg("No companies found matching \"{}\". Try a different search term or check the spelling.",
        <<query>>)

\* search_companies lines 43-48: the name search leaves
name_search(inv, c) ==
    LET a == inv.args IN
    Await("name_search",
          <<GetEv(Msg("/v1/us/sec/companies", <<>>),
                  SetIfTruthy([search |-> a.query, per_page |-> JInt(Min(a.limit, 50))],
                              "tier", a.tier))>>,
          NoLocals, c)

\* mutant of after_ticker_match: an error of the ticker lookup is returned as text
after_ticker_match_report(inv, got, c) ==
    IF got.kind = "raise"
    THEN IF got.type = "ThesmaAPIError" THEN Finish(<<>>, Return(got.message), c)
         ELSE Finish(<<>>, got, c)
    ELSE IF ~HasGet(got.value) THEN Finish(<<>>, Raise("AttributeError", NoMessage), c)
    ELSE LET companies == DictGet(got.value, "data", JList(<<>>)) IN
         IF Truthy(companies)
         THEN Finish(<<>>, Return(Rendered("_format_company_list", companies)), c)
         ELSE name_search(inv, c)

\* search_companies lines 35-41: the exact-ticker lookup has ended with got
after_ticker_match(inv, got, c) ==
    IF got.kind = "raise"
    THEN IF got.type = "ThesmaAPIError" THEN name_search(inv, c)
         ELSE Finish(<<>>, got, c)
    ELSE IF ~HasGet(got.value) THEN Finish(<<>>, Raise("AttributeError", NoMessage), c)
    ELSE LET companies == DictGet(got.value, "data", JList(<<>>)) IN
         IF Truthy(companies)
         THEN Finish(<<>>, Return(Rendered("_format_company_list", companies)), c)
         ELSE name_search(inv, c)

\* search_companies lines 48-54: the name search has ended with got
after_name_search(inv, got, c) ==
    IF got.kind = "raise" THEN Finish(<<>>, got, c)
    ELSE IF ~HasGet(got.value) THEN Finish(<<>>, Raise("AttributeError", NoMessage), c)
    ELSE LET companies == DictGet(got.value, "data", JList(<<>>)) IN
         IF ~Truthy(companies) THEN Finish(<<>>, Return(NoCompanies(inv.args.query.v)), c)
         ELSE Finish(<<>>, Return(Rendered("_format_company_list", companies)), c)

\* mutant of handler_begin: get_holding_changes does not check its arguments
handler_begin_unchecked(inv, c) ==
    IF inv.name # "get_holding_changes" /\ validate(inv) # NoMessage
    THEN Finish(<<>>, Return(validate(inv)), c)
    ELSE CASE inv.name = "search_companies" ->
                Await("ticker_match",
                      <<GetEv(Msg("/v1/us/sec/companies", <<>>), [ticker |-> JStr(upper(inv.args.query.v))])>>,
                      NoLocals, c)
           [] inv.name = "get_holding_changes" /\ resolved_ticker(inv) = JNull ->
                IF inv.args.fund_name = JNull THEN Finish(<<>>, Raise("AssertionError", NoMessage), c)
                ELSE fund_call(inv, c)
           [] inv.name = "get_fund_holdings" -> fund_call(inv, c)
           [] resolved_ticker(inv) # JNull -> resolve_call(inv, c)
           [] OTHER -> data_call(inv, NoLocals, <<>>, c)

\* mutant of handler_begin: get_insider_trades checks its parameters only after its requests
handler_begin_late(inv, c) ==
    IF inv.name # "get_insider_trades" /\ validate(inv) # NoMessage
    THEN Finish(<<>>, Return(validate(inv)), c)
    ELSE CASE inv.name = "search_companies" ->
                Await("ticker_match",
                      <<GetEv(Msg("/v1/us/sec/companies", <<>>), [ticker |-> JStr(upper(inv.args.query.v))])>>,
                      NoLocals, c)
           [] inv.name = "get_holding_changes" /\ resolved_ticker(inv) = JNull -> fund_call(inv, c)
           [] inv.name = "get_fund_holdings" -> fund_call(inv, c)
           [] resolved_ticker(inv) # JNull -> resolve_call(inv, c)
           [] OTHER -> data_call(inv, NoLocals, <<>>, c)

\* a handler from its call to its first suspension, or to its end when it
\* issues no request
handler_begin(inv, c) ==
    IF validate(inv) # NoMessage THEN Finish(<<>>, Return(validate(inv)), c)
    ELSE CASE inv.name = "search_companies" ->
                Await("ticker_match",
                      <<GetEv(Msg("/v1/us/sec/companies", <<>>), [ticker |-> JStr(upper(inv.args.query.v))])>>,
                      NoLocals, c)
           [] inv.name = "get_holding_changes" /\ resolved_ticker(inv) = JNull -> fund_call(inv, c)
           [] inv.name = "get_fund_holdings" -> fund_call(inv, c)
           [] resolved_ticker(inv) # JNull -> resolve_call(inv, c)
           [] OTHER -> data_call(inv, NoLocals, <<>>, c)

\* a handler from the answer got of the request it is suspended in (at
\* position pos) to its next suspension or to its end
handler_resume(inv, pos, loc, got, c) ==
    CASE pos = "lookup" ->
            LET e == resolve_end(c, resolved_ticker(inv).v, got) IN
            after_resolve(inv, e.ret, <<ResolvedEv(e.ret)>>, e.cache)
      [] pos = "fund_search" -> after_fund_search(inv, got, c)
      [] pos = "company" -> after_company(inv, loc, got, c)
      [] pos = "data" -> after_data(inv, loc, got, c)
      [] pos = "ticker_match" -> after_ticker_match(inv, got, c)
      [] pos = "name_search" -> after_name_search(inv, got, c)

-----------------------------------------------------------------------------
(* Tool invocations on the shared AppContext, one at a time *)

BERKSHIRE == <<"Berkshire">>

Invocation(name, args) == [name |-> name, args |-> args]

GetCompanyCalls == {Invocation("get_company", [ticker |-> JStr(t)]) : t \in {aapl, AAPL_CIK}}

GetFinancialsCalls ==
    {Invocation("get_financials",
                [ticker |-> JStr(AAPL), statement |-> s, period |-> p, year |-> y, quarter |-> q]) :
        s \in {JStr(<<"income">>), JStr(<<"equity">>)},
        p \in {JStr(<<"annual">>), JStr(<<"quarterly">>)},
        y \in {JNull, JInt(2024)},
        q \in {JNull, JInt(2)}}

GetEventsCalls ==
    {Invocation("get_events",
                [ticker |-> t, category |-> k, from_date |-> f, to_date |-> JNull, limit |-> n]) :
        t \in {JNull, JStr(<<>>), JStr(<<" ">>), JStr(AAPL)},
        k \in {JNull, JStr(<<"earnings">>), JStr(<<"bogus">>)},
        f \in {JNull,
               JStr(<<"2", "0", "2", "4", "-", "0", "1", "-", "1", "5">>),
               JStr(<<"0", "1", "/", "1", "5", "/", "2", "0", "2", "4">>)},
        n \in {20, 100}}

ScreenerParams ==
    {EmptyDict,
     [min_gross_margin |-> JInt(40), has_insider_buying |-> JBool(TRUE),
      has_institutional_increase |-> JBool(FALSE), sort |-> JStr(<<"gross_margin">>),
      order |-> JNull],
     [tier |-> JStr(<<"sp500">>), sort |-> JStr(<<"market_cap">>)]}

ScreenCompaniesCalls ==
    {Invocation("screen_companies", [params |-> f, limit |-> n]) :
        f \in ScreenerParams, n \in {20, 51}}

SearchCompaniesCalls ==
    {Invocation("search_companies", [query |-> JStr(aapl), tier |-> t, limit |-> n]) :
        t \in {JNull, JStr(<<"sp500">>)}, n \in {20, 51}}

GetHoldingChangesCalls ==
    {Invocation("get_holding_changes",
                [ticker |-> t, fund_name |-> f, quarter |-> q, change |-> JNull, limit |-> 20]) :
        t \in {JNull, JStr(<<>>), JStr(aapl)},
        f \in {JNull, JStr(<<>>), JStr(BERKSHIRE), JStr(MSFT_CIK)},
        q \in {JNull, JStr(<<"2024-Q4">>)}}

GetInsiderTradesCalls ==
    {Invocation("get_insider_trades",
                [ticker |-> t, type |-> k, min_value |-> m, from_date |-> f, to_date |-> JNull,
                 limit |-> n]) :
        t \in {JNull, JStr(<<>>), JStr(<<" ">>), JStr(AAPL)},
        k \in {JNull, JStr(<<"purchase">>), JStr(<<"short_sell">>)},
        m \in {JNull, JInt(1000000)},
        f \in {JNull, JStr(<<"y", "e", "s", "t", "e", "r", "d", "a", "y">>)},
        n \in {20, 100}}

SearchFundsCalls ==
    {Invocation("search_funds", [query |-> JStr(BERKSHIRE), limit |-> n]) : n \in {20, 51}}

GetInstitutionalHoldersCalls ==
    {Invocation("get_institutional_holders", [ticker |-> JStr(aapl), quarter |-> q, limit |-> n]) :
        q \in {JNull, JStr(<<"2024-Q4">>)}, n \in {20, 51}}

GetFundHoldingsCalls ==
    {Invocation("get_fund_holdings",
                [fund_name |-> JStr(f), quarter |-> JNull, position_type |-> JStr(p), limit |-> n]) :
        f \in {BERKSHIRE, MSFT_CIK, UNPADDED}, p \in {<<"equity">>, <<"all">>}, n \in {20, 51}}

SearchFilingsCalls ==
    {Invocation("search_filings",
                [ticker |-> t, type |-> k, from_date |-> JNull, to_date |-> JNull, limit |-> n]) :
        t \in {JNull, JStr(<<>>), JStr(AAPL)}, k \in {JNull, JStr(<<"10-K">>)}, n \in {20, 51}}

GetFinancialMetricCalls ==
    {Invocation("get_financial_metric",
                [ticker |-> JStr(AAPL), metric |-> JStr(m), period |-> JStr(<<"annual">>),
                 from_year |-> y, to_year |-> JNull]) :
        m \in {<<"revenue">>, <<"ebitda">>}, y \in {JNull, JInt(2020)}}

GetRatiosCalls ==
    {Invocation("get_ratios",
                [ticker |-> JStr(AAPL), period |-> p, year |-> JNull, quarter |-> q]) :
        p \in {JStr(<<"annual">>), JStr(<<"quarterly">>)}, q \in {JNull, JInt(2)}}

GetRatioHistoryCalls ==
    {Invocation("get_ratio_history",
                [ticker |-> JStr(AAPL), ratio |-> JStr(r), period |-> JStr(<<"annual">>),
                 from_year |-> JNull, to_year |-> y]) :
        r \in {<<"gross_margin">>, <<"pe_ratio">>}, y \in {JNull, JInt(2024)}}

Invocations ==
    GetCompanyCalls \cup GetFinancialsCalls \cup GetEventsCalls \cup ScreenCompaniesCalls
    \cup SearchCompaniesCalls \cup GetHoldingChangesCalls \cup GetInsiderTradesCalls
    \cup SearchFundsCalls \cup GetInstitutionalHoldersCalls \cup GetFundHoldingsCalls
    \cup SearchFilingsCalls \cup GetFinancialMetricCalls \cup GetRatiosCalls
    \cup GetRatioHistoryCalls

NoTool == Invocation("", EmptyDict)

ToolInit ==
    /\ tool = NoTool
    /\ tpc = "idle"
    /\ tlocals = NoLocals
    /\ trace = <<>>
    /\ tret = NoResult

\* the server calls a handler: it runs to its first suspension or to its end
Invoke(inv) ==
    LET r == handler_begin(inv, cache) IN
    /\ tpc = "idle"
    /\ tool' = inv
    /\ tpc' = r.tpc
    /\ tlocals' = r.locals
    /\ trace' = r.events
    /\ tret' = r.ret
    /\ cache' = r.cache

\* the request the handler awaits is answered (client.get returns or raises
\* got): it runs to its next suspension or to its end
Answer(got) ==
    LET r == handler_resume(tool, tpc, tlocals, got, cache) IN
    /\ tpc \notin {"idle", "done"}
    /\ tpc' = r.tpc
    /\ tlocals' = r.locals
    /\ trace' = trace \o r.events
    /\ tret' = r.ret
    /\ cache' = r.cache
    /\ UNCHANGED tool

\* the server has taken the handler's result
ToolDone ==
    /\ tpc = "done"
    /\ tool' = NoTool
    /\ tpc' = "idle"
    /\ tlocals' = NoLocals
    /\ trace' = <<>>
    /\ tret' = NoResult
    /\ UNCHANGED cache

-----------------------------------------------------------------------------
(* server.py: main and app_lifespan *)

\* mutant of main: the key is tested for emptiness only
main_nostrip(env) ==
    LET api_key == environ_get(env, "THESMA_API_KEY", <<>>) IN
    IF ~Truthy(api_key)
    THEN [stderr |-> <<KeyNotSet>>, exit |-> JInt(1), run |-> <<>>]
    ELSE LET transport == environ_get(env, "THESMA_MCP_TRANSPORT", <<"stdio">>) IN
         [stderr |-> <<>>, exit |-> JNull,
          run |-> <<IF transport.v = <<"http">> THEN "streamable-http" ELSE "stdio">>]

\* main up to the point where it exits or blocks in mcp.run: what it printed
\* to standard error, the status it exited with, the transport it started
main(env) ==
    LET api_key == environ_get(env, "THESMA_API_KEY", <<>>) IN
    IF ~Truthy(api_key) \/ strip(api_key.v) = <<>>
    THEN [stderr |-> <<KeyNotSet>>, exit |-> JInt(1), run |-> <<>>]
    ELSE LET transport == environ_get(env, "THESMA_MCP_TRANSPORT", <<"stdio">>) IN
         [stderr |-> <<>>, exit |-> JNull,
          run |-> <<IF transport.v = <<"http">> THEN "streamable-http" ELSE "stdio">>]

\* mutant of app_lifespan_exit: client.close() follows the yield without try/finally
app_lifespan_exit_nofinally(cs, id, how) ==
    IF how = "normal" THEN [cs EXCEPT ![id].closed = @ + 1] ELSE cs

\* app_lifespan after the yield, lines 33-34: the "finally" closes the
\* client the lifespan constructed, however the body ended
app_lifespan_exit(cs, id, how) == [cs EXCEPT ![id].closed = @ + 1]

EnvTransports == {<<"http">>, <<"stdio">>, <<"HTTP">>, <<"sse">>, <<>>}

ServerEnvKeys == {<<>>, <<" ", "\t">>, <<"env-key">>, <<" ", "k", "\n">>}

\* the environment the server process is launched in
ServerEnvirons ==
    {EmptyDict}
    \cup {[THESMA_API_KEY |-> k] : k \in ServerEnvKeys}
    \cup {[THESMA_MCP_TRANSPORT |-> t] : t \in EnvTransports}
    \cup {[THESMA_API_KEY |-> k, THESMA_MCP_TRANSPORT |-> t] : k \in ServerEnvKeys, t \in EnvTransports}
    \cup {[THESMA_API_KEY |-> k, THESMA_API_URL |-> u] : k \in ServerEnvKeys, u \in EnvUrls}

MaxServed == 2

BodyEndings == {"normal", "raised", "cancelled"}

NoContext == [client |-> 0, resolver |-> 0]

ServerInit ==
    /\ mpc = "start"
    /\ stderr = <<>>
    /\ exit_status = JNull
    /\ transports = <<>>
    /\ lpc = "out"
    /\ clients = <<>>
    /\ resolvers = <<>>
    /\ context = NoContext
    /\ handed = <<>>
    /\ ending = "none"

\* the process is launched with environment env and main runs until it exits
\* or is inside mcp.run
Main(env) ==
    LET m == main(env) IN
    /\ mpc = "start"
    /\ environ = EmptyDict
    /\ environ' = env
    /\ stderr' = m.stderr
    /\ exit_status' = m.exit
    /\ transports' = m.run
    /\ mpc' = IF m.run = <<>> THEN "exited" ELSE "running"
    /\ UNCHANGED <<lpc, clients, resolvers, context, handed, ending>>

\* the running server enters app_lifespan, lines 29-32: the client and the
\* resolver are constructed and the context is yielded
LifespanEnter ==
    LET made == ThesmaClient_init(JNull, JNull, environ) IN
    /\ mpc = "running"
    /\ lpc = "out"
    /\ IF made.kind = "raise"
       THEN /\ lpc' = "failed"
            /\ UNCHANGED <<clients, resolvers, context>>
       ELSE /\ lpc' = "yielded"
            /\ clients' = Append(clients, [base_url |-> made.value.base_url, closed |-> 0])
            /\ resolvers' = Append(resolvers, [client |-> Len(clients) + 1, cache |-> EmptyDict])
            /\ context' = [client |-> Len(clients) + 1, resolver |-> Len(resolvers) + 1]
    /\ UNCHANGED <<environ, mpc, stderr, exit_status, transports, handed, ending>>

\* a tool invocation reads ctx.request_context.lifespan_context
Serve ==
    /\ lpc = "yielded"
    /\ Len(handed) < MaxServed
    /\ handed' = Append(handed, context)
    /\ UNCHANGED <<environ, mpc, stderr, exit_status, transports, lpc, clients, resolvers, context, ending>>

\* the server body ends and app_lifespan runs to its end
LifespanExit(how) ==
    /\ lpc = "yielded"
    /\ lpc' = "ended"
    /\ ending' = how
    /\ clients' = app_lifespan_exit(clients, context.client, how)
    /\ UNCHANGED <<environ, mpc, stderr, exit_status, transports, resolvers, context, handed>>

\* mcp.run returns or raises and the process exits
Exit ==
    /\ mpc = "running"
    /\ lpc \in {"failed", "ended"}
    /\ mpc' = "exited"
    /\ exit_status' = IF lpc = "ended" /\ ending = "normal" THEN JInt(0) ELSE JInt(1)
    /\ UNCHANGED <<environ, stderr, transports, lpc, clients, resolvers, context, handed, ending>>

-----------------------------------------------------------------------------
(* Specifications *)

Init == ResolverInit /\ ClientInit /\ ConstructInit /\ ToolInit /\ ServerInit

\* what the resolver's steps leave alone
otherVars == <<clientVars, constructVars, toolVars, serverVars>>

\* resolve calls of several tool invocations interleave at their awaits
Next ==
    \/ \E t \in Tasks, input \in Inputs : Resolve(t, input) /\ UNCHANGED otherVars
    \/ \E t \in Tasks, got \in GetResults : Complete(t, got) /\ UNCHANGED otherVars

Spec == Init /\ [][Next]_vars

\* one caller: a resolve call starts only when no other is in flight
NextSeq ==
    \/ \E t \in Tasks, input \in Inputs :
          (\A u \in Tasks : pc[u] = "idle") /\ Resolve(t, input) /\ UNCHANGED otherVars
    \/ \E t \in Tasks, got \in GetResults : Complete(t, got) /\ UNCHANGED otherVars

SpecSeq == Init /\ [][NextSeq]_vars

\* direct calls of ThesmaClient.get, one at a time
NextClient ==
    \/ \E path \in Paths : GetSend(path) /\ UNCHANGED <<resolverVars, toolVars, serverVars, constructVars>>
    \/ \E outcome \in Outcomes : GetReceive(outcome) /\ UNCHANGED <<resolverVars, toolVars, serverVars, constructVars>>
    \/ GetDone /\ UNCHANGED <<resolverVars, toolVars, serverVars, constructVars>>

SpecClient == Init /\ [][NextClient]_vars

\* what the core leaves alone
coreRest == <<constructVars, toolVars, serverVars>>

\* one caller resolves inputs, one after the other, against every outcome of the transport
NextCore ==
    \/ \E t \in Tasks, input \in Inputs : CoreResolve(t, input) /\ UNCHANGED coreRest
    \/ \E t \in Tasks, outcome \in Outcomes : CoreReceive(t, outcome) /\ UNCHANGED coreRest
    \/ GetDone /\ UNCHANGED <<resolverVars, coreRest>>

SpecCore == Init /\ [][NextCore]_vars

\* clients are constructed, called and dropped, one at a time
NextConstruct ==
    \/ \E api_key \in ApiKeys, base_url \in BaseUrls, env \in Environs :
          Construct(api_key, base_url, env) /\ UNCHANGED <<resolverVars, toolVars, serverVars, clientVars>>
    \/ \E path \in Paths : ClientGetSend(path) /\ UNCHANGED <<resolverVars, toolVars, serverVars, constructVars>>
    \/ \E outcome \in Outcomes :
          ClientGetReceive(outcome) /\ UNCHANGED <<resolverVars, toolVars, serverVars, constructVars>>
    \/ GetDone /\ UNCHANGED <<resolverVars, toolVars, serverVars, constructVars>>
    \/ Discard /\ UNCHANGED <<resolverVars, toolVars, serverVars, clientVars>>

SpecConstruct == Init /\ [][NextConstruct]_vars

\* what a tool invocation leaves alone: the resolver's coroutines and history,
\* the direct get call and the construction
toolRest == <<pc, ticker_or_cik, lookup, last, firstId, clientVars, constructVars, serverVars>>

\* tool invocations, one at a time, against every answer of the API
NextTools ==
    \/ \E inv \in Invocations : Invoke(inv) /\ UNCHANGED toolRest
    \/ \E got \in GetResults : Answer(got) /\ UNCHANGED toolRest
    \/ ToolDone /\ UNCHANGED toolRest

SpecTools == Init /\ [][NextTools]_vars

\* what the server process leaves alone
serverRest == <<resolverVars, clientVars, init_args, client, toolVars>>

\* one server process, from its launch to its exit
NextServer ==
    \/ \E env \in ServerEnvirons : Main(env) /\ UNCHANGED serverRest
    \/ LifespanEnter /\ UNCHANGED serverRest
    \/ Serve /\ UNCHANGED serverRest
    \/ \E how \in BodyEndings : LifespanExit(how) /\ UNCHANGED serverRest
    \/ Exit /\ UNCHANGED serverRest

SpecServer == Init /\ [][NextServer]_vars

-----------------------------------------------------------------------------
(* Properties *)

\* coroutine t suspends in its lookup in this step
Suspends(t) == pc[t] = "idle" /\ pc'[t] = "awaiting"

\* the lookup of coroutine t completes in this step and its resolve call ends
Finishes(t) == pc[t] = "awaiting" /\ pc'[t] = "idle"

\* a resolve call starts and ends in this step, without suspending
ReturnsAtOnce == last' # last /\ last'.calls = 0

\* the lookup request of resolve for a cache key
LookupRequest(key) == [path |-> "/v1/us/sec/companies", params |-> [ticker |-> key]]

NotFoundFmt == "No company found for ticker '{}'. Try searching with search_companies."

\* get returned a mapping whose data list is empty or missing
EmptyResult(got) ==
    /\ got.kind = "return"
    /\ HasGet(got.value)
    /\ DictGet(got.value, "data", JList(<<>>)) = JList(<<>>)

\* get returned a mapping whose data is falsy (empty, missing or null)
FalsyResult(got) ==
    /\ got.kind = "return"
    /\ HasGet(got.value)
    /\ ~Truthy(DictGet(got.value, "data", JList(<<>>)))

IsApiError(r) == r.kind = "raise" /\ r.type = "ThesmaAPIError"

\* C1: a resolve of an input matching ^0\d{9}$ returns the input unchanged,
\* at once, in every cache state: no lookup is ever in flight for such an
\* input, no request is issued and the cache is not touched.
C1_Passthrough ==
    [][/\ \A t \in Tasks : pc'[t] = "awaiting" => ~CIK_PATTERN_match(ticker_or_cik'[t])
       /\ (last' # last /\ CIK_PATTERN_match(last'.input)) =>
             /\ last'.ret = Return(JStr(last'.input))
             /\ last'.calls = 0
             /\ cache' = cache
             /\ lookup' = lookup]_vars

\* a canonical identifier was passed through while the cache held entries and a lookup was in flight
C1_Witness ==
    /\ CIK_PATTERN_match(last.input)
    /\ last.ret = Return(JStr(last.input))
    /\ DOMAIN cache # {}
    /\ \E t \in Tasks : pc[t] = "awaiting"

\* C2: with one caller, a resolve of a ticker suspends in exactly one lookup
\* request, and only while no lookup of its key has succeeded yet (the first
\* resolution); a resolve that ends after a lookup has issued exactly one
\* call; a later resolve of the ticker, or of any case variant of it,
\* returns without a call the identifier the first resolution returned.
C2_SecondResolutionCached ==
    [][/\ \A t \in Tasks : Suspends(t) =>
             /\ upper(ticker_or_cik'[t]) \notin DOMAIN firstId
             /\ lookup'[t] = LookupRequest(upper(ticker_or_cik'[t]))
       /\ \A t \in Tasks : Finishes(t) => last'.calls = 1
       /\ (ReturnsAtOnce /\ ~CIK_PATTERN_match(last'.input)) =>
             /\ upper(last'.input) \in DOMAIN firstId
             /\ last'.ret = Return(firstId[upper(last'.input)])]_vars

\* the lower-case variant was answered from the cache, without a call
C2_Witness ==
    /\ last.input = aapl
    /\ last.calls = 0
    /\ AAPL \in DOMAIN firstId
    /\ last.ret = Return(firstId[AAPL])

\* C3: the step in which a resolve ends in an error leaves the cache as it
\* was (and so does the step in which it suspended), and a resolve of a
\* ticker returns without a lookup only when its key is in the cache: as
\* long as the ticker is unresolved, every resolve of it issues the lookup.
C3_FailureNotCached ==
    [][/\ \A t \in Tasks : (Finishes(t) /\ last'.ret.kind = "raise") => cache' = cache
       /\ \A t \in Tasks : Suspends(t) => cache' = cache
       /\ (ReturnsAtOnce /\ ~CIK_PATTERN_match(last'.input)) =>
             upper(last'.input) \in DOMAIN cache]_vars

\* a coroutine whose resolve of a ticker failed is looking the same key up again
C3_Witness ==
    \E t \in Tasks :
        /\ last.task = t
        /\ last.ret.kind = "raise"
        /\ pc[t] = "awaiting"
        /\ upper(ticker_or_cik[t]) = upper(last.input)
        /\ upper(last.input) \notin DOMAIN cache
        /\ lookup[t] = LookupRequest(upper(last.input))

\* C4: once the cache maps a key to an identifier, it maps the key to that
\* identifier in every later state, in every interleaving.
C4_NeverUpdated ==
    [][\A k \in DOMAIN cache : k \in DOMAIN cache' /\ cache'[k] = cache[k]]_vars

\* C5: when the lookup returns a mapping with an empty or missing data list,
\* resolve raises ThesmaAPIError with the "No company found" message built
\* from the input as the caller gave it, and leaves the cache unchanged.
C5_EmptyResultError ==
    [][\A t \in Tasks : (Finishes(t) /\ EmptyResult(last'.got)) =>
          /\ last'.ret = Raise("ThesmaAPIError", Msg(NotFoundFmt, <<last'.input>>))
          /\ cache' = cache]_vars

\* the lookup of a lower-case ticker came back empty
C5_Witness ==
    /\ last.input = aapl
    /\ EmptyResult(last.got)
    /\ last.ret.kind = "raise"

\* C6: when the lookup raises ThesmaAPIError, resolve raises that very error
\* (same message, not the "No company found" one) and leaves the cache
\* unchanged; "No company found" is raised only after a lookup that
\* returned a mapping with no results.
C6_ClientErrorPropagates ==
    [][\A t \in Tasks : Finishes(t) =>
          /\ IsApiError(last'.got) =>
                /\ last'.ret = last'.got
                /\ last'.ret.message.fmt # NotFoundFmt
                /\ cache' = cache
          /\ (IsApiError(last'.ret) /\ last'.ret.message.fmt = NotFoundFmt) =>
                FalsyResult(last'.got)]_vars

\* a rate-limit error of the lookup reached the caller of resolve
C6_Witness ==
    /\ last.calls = 1
    /\ IsApiError(last.got)
    /\ last.got.message.args = <<<<"30">>>>
    /\ last.ret = last.got

\* C7: whatever the transport does, get returns the parsed JSON or raises ThesmaAPIError.
C7_OnlyApiErrors ==
    gpc = "done" => (result.kind = "return" \/ IsApiError(result))

\* C8: for a response with status >= 400, get raises ThesmaAPIError, with
\* the message fixed by the status: 401 the API's message and the portal
\* URL, 404 the API's message, 429 the rate-limit message, 500 and above the
\* "temporarily unavailable" message, any other the API's message alone.
C8_ErrorTranslation ==
    (gpc = "done" /\ response.kind = "response" /\ response.status_code >= 400) =>
        LET status == response.status_code
            m == PyStr(api_message(response))
        IN
        /\ IsApiError(result)
        /\ CASE status = 401 ->
                    result.message = Msg("{}. Get a new key at https://portal.thesma.dev", <<m>>)
             [] status = 404 -> result.message = Msg("{}", <<m>>)
             [] status = 429 ->
                    /\ result.message.fmt =
                        "Rate limit exceeded. Try again in {} seconds. Upgrade at https://portal.thesma.dev/billing"
                    /\ Len(result.message.args) = 1
             [] status >= 500 ->
                    result.message =
                        Msg("Thesma API is temporarily unavailable. Try again in a moment.", <<>>)
             [] OTHER -> result.message = Msg("{}", <<m>>)

\* a 500 whose body carries an API message has been translated
C8_Witness ==
    /\ gpc = "done"
    /\ response.kind = "response"
    /\ response.status_code = 500
    /\ api_message(response) = JStr(<<"Company not found">>)
    /\ IsApiError(result)

\* C9: for a 429 the message is the rate-limit text with the Retry-After
\* value, "60" when the header is absent, and the billing URL; the API's
\* message is not part of it.
C9_RateLimit ==
    (gpc = "done" /\ response.kind = "response" /\ response.status_code = 429) =>
        LET v == IF "Retry-After" \in DOMAIN response.headers
                 THEN response.headers["Retry-After"]
                 ELSE <<"60">>
        IN
        /\ IsApiError(result)
        /\ result.message =
              Msg("Rate limit exceeded. Try again in {} seconds. Upgrade at https://portal.thesma.dev/billing",
                  <<v>>)
        /\ \A i \in DOMAIN result.message.args :
              result.message.args[i] # PyStr(api_message(response))

\* a 429 with Retry-After: 30 and an API message in its body
C9_Witness ==
    /\ gpc = "done"
    /\ response.kind = "response"
    /\ response.status_code = 429
    /\ "Retry-After" \in DOMAIN response.headers
    /\ response.headers["Retry-After"] = <<"30">>
    /\ api_message(response) = JStr(<<"Company not found">>)
    /\ IsApiError(result)

\* C10: for a response with status >= 500, every response of that status,
\* whatever its body and headers, makes get raise the same error; its
\* message is the "temporarily unavailable" text and interpolates nothing.
C10_ServerErrorOpaque ==
    (gpc = "done" /\ response.kind = "response" /\ response.status_code >= 500) =>
        /\ IsApiError(result)
        /\ \A o \in Outcomes :
              (o.kind = "response" /\ o.status_code = response.status_code) =>
                  get(TheClient, o) = result
        /\ result.message.fmt = "Thesma API is temporarily unavailable. Try again in a moment."
        /\ result.message.args = <<>>

\* a 503 carrying a Retry-After header and an API message
C10_Witness ==
    /\ gpc = "done"
    /\ response.kind = "response"
    /\ response.status_code = 503
    /\ "Retry-After" \in DOMAIN response.headers
    /\ api_message(response) = JStr(<<"Invalid or revoked API key.">>)
    /\ IsApiError(result)

\* the body of an error response carries no error.message: it is not JSON,
\* not a mapping, has no "error" member that is a mapping, or that mapping
\* has no "message"
NoNestedMessage(body) ==
    \/ ~body.is_json
    \/ body.value.t # "map"
    \/ /\ "error" \in DOMAIN body.value.v
       /\ body.value.v["error"].t # "map"
    \/ /\ "error" \in DOMAIN body.value.v
       /\ body.value.v["error"].t = "map"
       /\ "message" \notin DOMAIN body.value.v["error"].v
    \/ "error" \notin DOMAIN body.value.v

\* C11: for a response with status >= 400 whose body carries no nested
\* error.message, building the message does not fail: get raises the
\* ThesmaAPIError of the status, and where the status's message shows the
\* API message (401, 404, other 4xx) it shows the literal "Unknown error".
C11_UnknownError ==
    (gpc = "done" /\ response.kind = "response" /\ response.status_code >= 400
        /\ NoNestedMessage(response.body)) =>
        LET status == response.status_code IN
        /\ IsApiError(result)
        /\ CASE status = 401 ->
                    result.message =
                        Msg("{}. Get a new key at https://portal.thesma.dev", <<<<"Unknown error">>>>)
             [] status = 429 ->
                    result.message.fmt =
                        "Rate limit exceeded. Try again in {} seconds. Upgrade at https://portal.thesma.dev/billing"
             [] status >= 500 ->
                    result.message =
                        Msg("Thesma API is temporarily unavailable. Try again in a moment.", <<>>)
             [] OTHER -> result.message = Msg("{}", <<<<"Unknown error">>>>)

\* a 404 whose body is a JSON list was translated
C11_Witness ==
    /\ gpc = "done"
    /\ response.kind = "response"
    /\ response.status_code = 404
    /\ response.body = Json(JList(<<>>))
    /\ result = Raise("ThesmaAPIError", Msg("{}", <<<<"Unknown error">>>>))

\* the base URL a construction was configured with: the base_url argument
\* when it is a non-empty string, else THESMA_API_URL, else nothing
ConfiguredUrl ==
    IF init_args.base_url # JNull /\ init_args.base_url.v # <<>> THEN init_args.base_url.v
    ELSE IF "THESMA_API_URL" \in DOMAIN environ THEN environ["THESMA_API_URL"]
    ELSE <<>>

\* u is s without its trailing slashes
Normalized(u, s) ==
    /\ u = <<>> \/ u[Len(u)] # "/"
    /\ \E n \in 0..Len(s) : s = u \o [i \in 1..n |-> "/"]

\* C12: a get that ends in a transport timeout or a connection failure
\* raises ThesmaAPIError with the "Cannot reach" message, which names the
\* base URL the client was configured with, trailing slashes removed (the
\* default URL when nothing is left); the message does not depend on which
\* of the two failures occurred.
C12_CannotReach ==
    (gpc = "done" /\ response.kind \in {"TimeoutException", "ConnectError"}) =>
        /\ IsApiError(result)
        /\ result.message.fmt = "Cannot reach Thesma API at {}. Check your network connection."
        /\ \E n \in 0..Len(ConfiguredUrl) :
              LET u == SubSeq(ConfiguredUrl, 1, n) IN
              /\ Normalized(u, ConfiguredUrl)
              /\ result.message.args =
                    <<IF u = <<>> THEN <<"https://api.thesma.dev">> ELSE u>>

\* a connection failure on a client built with base_url "http://localhost:8000//"
C12_Witness ==
    /\ gpc = "done"
    /\ response.kind = "ConnectError"
    /\ init_args.base_url = JStr(<<"http://localhost:8000", "/", "/">>)
    /\ IsApiError(result)
    /\ result.message.args = <<<<"http://localhost:8000">>>>

\* the credential a construction was given: the api_key argument when it is
\* a non-empty string, else THESMA_API_KEY, else nothing
Credential ==
    IF init_args.api_key # JNull /\ init_args.api_key.v # <<>> THEN init_args.api_key.v
    ELSE IF "THESMA_API_KEY" \in DOMAIN environ THEN environ["THESMA_API_KEY"]
    ELSE <<>>

Blank(s) == \A i \in DOMAIN s : s[i] \in {" ", "\t", "\n"}

\* C13: a construction whose credential is absent, empty or only whitespace
\* raises ThesmaAPIError with the "not set" message that names the portal;
\* no client object results and no request has been issued.
C13_NoCredentialNoClient ==
    (client # NoResult /\ Blank(Credential)) =>
        /\ client =
              Raise("ThesmaAPIError",
                    Msg("THESMA_API_KEY not set. Get an API key at https://portal.thesma.dev", <<>>))
        /\ gpc = "idle"
        /\ request = NoPath

\* a whitespace-only api_key was refused although the environment holds a key
C13_Witness ==
    /\ init_args.api_key = JStr(<<" ", "\t">>)
    /\ "THESMA_API_KEY" \in DOMAIN environ
    /\ environ["THESMA_API_KEY"] = <<"env-key">>
    /\ IsApiError(client)

\* the i-th thing the invocation did is the lookup request of the resolver
IsLookupAt(i) == i > 1 /\ trace[i].ev = "get" /\ trace[i - 1].ev = "resolve"

\* the request e carries the identifier id: in its path or, for search_filings, as its cik parameter
Carries(e, id) ==
    \/ e.path.args # <<>> /\ e.path.args[1] = id
    \/ "cik" \in DOMAIN e.params /\ PyStr(e.params.cik) = id

\* C14: in a tool invocation that calls the resolver, the resolve call ends
\* before anything else is done: its only request is its own lookup, every
\* other request is issued after the resolve call has returned and carries
\* the identifier it returned, and when the resolve call ends in an error
\* the invocation ends with it, without another request.
C14_ResolveBeforeData ==
    \A i \in DOMAIN trace :
        /\ (trace[i].ev = "get" /\ ~IsLookupAt(i) /\ \E j \in DOMAIN trace : trace[j].ev = "resolve") =>
              \E j \in 1..(i - 1) :
                  /\ trace[j].ev = "resolved"
                  /\ trace[j].ok
                  /\ Carries(trace[i], trace[j].arg)
        /\ (trace[i].ev = "resolved" /\ ~trace[i].ok) => (i = Len(trace) /\ tpc = "done")
        /\ (trace[i].ev = "resolve" /\ i < Len(trace)) =>
              \/ trace[i + 1].ev = "resolved"
              \/ /\ IsLookupAt(i + 1)
                 /\ (i + 1 < Len(trace) => trace[i + 2].ev = "resolved")
        /\ (trace[i].ev = "resolve" /\ i = Len(trace)) => FALSE

\* get_events for a ticker: the lookup, then the company record and the
\* events of the identifier the lookup returned
C14_Witness ==
    /\ tool.name = "get_events"
    /\ Len(trace) = 5
    /\ trace[1].ev = "resolve"
    /\ IsLookupAt(2)
    /\ trace[3].ev = "resolved"
    /\ trace[3].ok
    /\ trace[5].path = Msg("/v1/us/sec/companies/{}/events", <<trace[3].arg>>)

\* C15: no ThesmaAPIError that resolve or get raised during a tool
\* invocation leaves the handler: the handler ends by returning a text.
C15_NoErrorCrossesBoundary ==
    tpc = "done" => ~IsApiError(tret)

\* get returned a mapping whose data is a non-empty list
NonEmptyList(got) ==
    /\ got.kind = "return"
    /\ HasGet(got.value)
    /\ "data" \in DOMAIN got.value.v
    /\ got.value.v["data"].t = "list"
    /\ got.value.v["data"].v # <<>>

\* the name search of search_companies for a query
IsNameSearch(e, query) ==
    /\ e.ev = "get"
    /\ e.path = Msg("/v1/us/sec/companies", <<>>)
    /\ "search" \in DOMAIN e.params
    /\ e.params["search"] = query
    /\ "ticker" \notin DOMAIN e.params

\* C19: the first request of search_companies is the lookup of the
\* upper-cased query as a ticker.  When it returns a non-empty list the tool
\* answers from it and has issued one request.  When it returns an empty
\* list or raises ThesmaAPIError the tool does not end: it issues the name
\* search as its second request, and what that request returns decides the
\* answer (the list found, or the "No companies found" text).
C19_TickerFirstThenName ==
    [][\A got \in GetResults : (tool.name = "search_companies" /\ Answer(got)) =>
          /\ trace[1] = GetEv(Msg("/v1/us/sec/companies", <<>>),
                              [ticker |-> JStr(upper(tool.args.query.v))])
          /\ (tpc = "ticker_match" /\ NonEmptyList(got)) =>
                /\ tpc' = "done"
                /\ Len(trace') = 1
                /\ tret' = Return(Rendered("_format_company_list", got.value.v["data"]))
          /\ (tpc = "ticker_match" /\ (EmptyResult(got) \/ IsApiError(got))) =>
                /\ tpc' = "name_search"
                /\ tret' = NoResult
                /\ Len(trace') = 2
                /\ IsNameSearch(trace'[2], tool.args.query)
          /\ tpc = "name_search" =>
                /\ tpc' = "done"
                /\ Len(trace') = 2
                /\ NonEmptyList(got) =>
                      tret' = Return(Rendered("_format_company_list", got.value.v["data"]))
                /\ EmptyResult(got) =>
                      tret' = Return(Msg("No companies found matching \"{}\". Try a different search term or check the spelling.",
                                         <<tool.args.query.v>>))]_vars

\* search_companies answered from the name search, its second request
C19_Witness ==
    /\ tool.name = "search_companies"
    /\ tpc = "done"
    /\ Len(trace) = 2
    /\ trace[1].params = [ticker |-> JStr(<<"A", "A", "P", "L">>)]
    /\ IsNameSearch(trace[2], JStr(<<"a", "a", "p", "l">>))
    /\ tret.kind = "return"
    /\ tret.value.fmt = "_format_company_list"

\* an optional string argument was given: it is neither None nor empty
Given(x) == x # JNull /\ x.v # <<>>

\* C20: get_holding_changes with both or neither of ticker and fund_name
\* (an empty string is not given) returns the "Provide exactly one" text
\* without a resolver call or a request.  With a ticker only, its requests
\* apart from the resolver's lookup go to the institutional-changes
\* endpoint of a company; with a fund name only, it never calls the
\* resolver and its requests apart from the fund search go to the
\* holding-changes endpoint of a fund.
C20_ExactlyOne ==
    (tool.name = "get_holding_changes" /\ tpc # "idle") =>
        LET a == tool.args IN
        IF Given(a.ticker) = Given(a.fund_name)
        THEN /\ tpc = "done"
             /\ trace = <<>>
             /\ tret.kind = "return"
             /\ tret.value.fmt =
                   "Provide exactly one of 'ticker' or 'fund_name'. Use ticker to see which funds changed positions, or fund_name to see what positions changed."
        ELSE IF Given(a.ticker)
        THEN /\ trace[1] = ResolveEv(a.ticker.v)
             /\ \A i \in DOMAIN trace : (trace[i].ev = "get" /\ ~IsLookupAt(i)) =>
                   trace[i].path.fmt = "/v1/us/sec/companies/{}/institutional-changes"
             /\ tpc = "data" => trace[Len(trace)].ev = "get" /\ ~IsLookupAt(Len(trace))
        ELSE /\ \A i \in DOMAIN trace :
                   /\ trace[i].ev = "get"
                   /\ \/ trace[i] = GetEv(Msg("/v1/us/sec/funds", <<>>), [search |-> a.fund_name])
                      \/ trace[i].path.fmt = "/v1/us/sec/funds/{}/holding-changes"
             /\ tpc = "data" =>
                   trace[Len(trace)].path.fmt = "/v1/us/sec/funds/{}/holding-changes"

\* both a ticker and a fund name were given: refused without a call
C20_Witness ==
    /\ tool.name = "get_holding_changes"
    /\ Given(tool.args.ticker)
    /\ Given(tool.args.fund_name)
    /\ tpc = "done"
    /\ trace = <<>>
    /\ tret.kind = "return"

\* the credential in the environment of the server process
EnvCredential == IF "THESMA_API_KEY" \in DOMAIN environ THEN environ["THESMA_API_KEY"] ELSE <<>>

\* C16: once main has run, if the credential in the environment is missing,
\* empty or whitespace-only, main has printed the diagnostic to standard
\* error and the process has exited with a non-zero status, and no
\* transport was started and no client constructed; otherwise exactly one
\* transport was started and nothing printed: streamable-http when
\* THESMA_MCP_TRANSPORT is "http", stdio otherwise.
C16_FailFast ==
    mpc # "start" =>
        IF Blank(EnvCredential)
        THEN /\ mpc = "exited"
             /\ stderr = <<Msg("THESMA_API_KEY not set. Get an API key at https://portal.thesma.dev", <<>>)>>
             /\ exit_status.t = "int"
             /\ exit_status.v # 0
             /\ transports = <<>>
             /\ clients = <<>>
             /\ lpc = "out"
        ELSE /\ stderr = <<>>
             /\ Len(transports) = 1
             /\ transports[1] =
                   IF "THESMA_MCP_TRANSPORT" \in DOMAIN environ /\ environ["THESMA_MCP_TRANSPORT"] = <<"http">>
                   THEN "streamable-http"
                   ELSE "stdio"

\* a whitespace-only credential with the http transport selected: exited at once
C16_Witness ==
    /\ mpc = "exited"
    /\ EnvCredential = <<" ", "\t">>
    /\ "THESMA_MCP_TRANSPORT" \in DOMAIN environ
    /\ environ["THESMA_MCP_TRANSPORT"] = <<"http">>
    /\ exit_status = JInt(1)
    /\ transports = <<>>

\* C17: a lifespan constructs one client and one resolver bound to that
\* client; while it is open the client has not been closed and every tool
\* invocation is given that client and that resolver; when it has ended,
\* normally or by an exception or a cancellation of the server body, the
\* client has been closed exactly once.
C17_OneClientClosedOnce ==
    /\ lpc = "out" => clients = <<>> /\ resolvers = <<>>
    /\ lpc \in {"yielded", "ended"} =>
          /\ Len(clients) = 1
          /\ Len(resolvers) = 1
          /\ resolvers[1].client = 1
          /\ context = [client |-> 1, resolver |-> 1]
          /\ \A i \in DOMAIN handed : handed[i] = context
    /\ lpc = "yielded" => clients[1].closed = 0
    /\ lpc = "ended" => clients[1].closed = 1

\* the server body raised after two tool invocations: the client is closed
C17_Witness ==
    /\ lpc = "ended"
    /\ ending = "raised"
    /\ Len(handed) = 2
    /\ clients[1].closed = 1

\* a Canonical Identifier: a string of exactly ten digits, the first one "0"
IsCanonical(v) ==
    /\ v.t = "str"
    /\ Len(v.v) = 10
    /\ v.v[1] = "0"
    /\ \A i \in 2..10 : v.v[i] \in Digits

\* C18: every value in the cache, and every value a resolve call returned,
\* is a Canonical Identifier, whatever the lookups answered.
C18_OnlyCanonical ==
    /\ \A k \in DOMAIN cache : IsCanonical(cache[k])
    /\ last.ret.kind = "return" => IsCanonical(last.ret.value)

\* get returned {"data": [first, ...]} whose first result is a record with a cik
HasResults(got) ==
    /\ got.kind = "return"
    /\ HasGet(got.value)
    /\ DictGet(got.value, "data", JList(<<>>)).t = "list"
    /\ Len(DictGet(got.value, "data", JList(<<>>)).v) >= 1
    /\ DictGet(got.value, "data", JList(<<>>)).v[1].t = "map"
    /\ "cik" \in DOMAIN DictGet(got.value, "data", JList(<<>>)).v[1].v

\* the cik of the first result
FirstCik(got) == DictGet(got.value, "data", JList(<<>>)).v[1].v["cik"]

\* another coroutine than t is suspended in a lookup of the key coroutine t looks up
OtherInFlight(t) ==
    \E u \in Tasks \ {t} :
        pc[u] = "awaiting" /\ upper(ticker_or_cik[u]) = upper(ticker_or_cik[t])

\* C24: there is no single-flight deduplication.  A resolve of a ticker whose
\* key is not in the cache suspends in a lookup request of its own even while
\* another lookup of the key is in flight; and a lookup that comes back with
\* results while another one of the key is in flight, or after another one
\* has filled the cache, still makes its resolve return the identifier it
\* got, the cache holding that one entry for the key and no other new key.
C24_DoubleLookup ==
    [][\A t \in Tasks :
          /\ (Suspends(t) /\ \E u \in Tasks \ {t} :
                                pc[u] = "awaiting"
                                /\ upper(ticker_or_cik[u]) = upper(ticker_or_cik'[t])) =>
                /\ upper(ticker_or_cik'[t]) \notin DOMAIN cache
                /\ lookup'[t] = LookupRequest(upper(ticker_or_cik'[t]))
                /\ \A u \in Tasks \ {t} : pc'[u] = pc[u] /\ lookup'[u] = lookup[u]
          /\ (Finishes(t) /\ HasResults(last'.got)
                /\ (OtherInFlight(t) \/ upper(last'.input) \in DOMAIN cache)) =>
                /\ last'.ret = Return(FirstCik(last'.got))
                /\ DOMAIN cache' = DOMAIN cache \cup {upper(last'.input)}
                /\ cache'[upper(last'.input)] = FirstCik(last'.got)]_vars

\* two lookups of AAPL were in flight together and both calls returned: the
\* one that ended last made a call although an earlier one had already
\* returned a (different) identifier for the key; the cache has the one entry
C24_Witness ==
    /\ \A t \in Tasks : pc[t] = "idle"
    /\ last.calls = 1
    /\ last.ret.kind = "return"
    /\ upper(last.input) = AAPL
    /\ AAPL \in DOMAIN firstId
    /\ firstId[AAPL] # last.ret.value
    /\ DOMAIN cache = {AAPL}
    /\ cache[AAPL] = last.ret.value

\* C25: the core never retries.  An HTTP request leaves only in the step in
\* which a resolve call suspends in its lookup, and it is that lookup's
\* request; when its outcome arrives, whatever it is, client.get ends with
\* the translation of that outcome and the resolve call ends with it, having
\* made one call: neither sends anything again.  A resolve that needs no
\* lookup sends nothing.
C25_NeverRetries ==
    [][/\ gpc' = "sent" =>
             \E t \in Tasks :
                 /\ pc'[t] = "awaiting"
                 /\ \A u \in Tasks \ {t} : pc'[u] = "idle"
                 /\ request' = lookup'[t].path
       /\ (gpc = "idle" /\ gpc' = "sent") => \E t \in Tasks : Suspends(t)
       /\ gpc = "sent" =>
             /\ gpc' = "done"
             /\ request' = request
             /\ result' = get(TheClient, response')
             /\ \A t \in Tasks : pc'[t] = "idle" /\ lookup'[t] = NoRequest
             /\ last'.calls = 1
             /\ last'.got = result'
       /\ ReturnsAtOnce => gpc' = "idle" /\ request' = NoPath]_vars

\* the one request of a resolve call timed out and the call is over, with the
\* "cannot reach" error and no request in flight
C25_Witness ==
    /\ gpc = "done"
    /\ response.kind = "TimeoutException"
    /\ last.calls = 1
    /\ last.input = aapl
    /\ last.ret = Raise("ThesmaAPIError", CannotReach(TheClient))
    /\ \A t \in Tasks : pc[t] = "idle" /\ lookup[t] = NoRequest

\* C26: a resolve that misses the cache sends the lookup with the upper-cased
\* input as its ticker parameter; when the lookup returns one or more
\* results, the call returns the cik of the first one and the cache changes
\* by exactly the entry upper(input) -> that cik.  Hence a key enters the
\* cache only as the upper-cased input of the call that ends in that step.
C26_LookupAndStore ==
    [][/\ \A t \in Tasks :
             /\ Suspends(t) =>
                   /\ lookup'[t].path = "/v1/us/sec/companies"
                   /\ lookup'[t].params = [ticker |-> upper(ticker_or_cik'[t])]
             /\ (Finishes(t) /\ HasResults(last'.got)) =>
                   /\ last'.input = ticker_or_cik[t]
                   /\ lookup[t].params.ticker = upper(last'.input)
                   /\ last'.ret = Return(FirstCik(last'.got))
                   /\ cache' = CacheSet(cache, upper(last'.input), FirstCik(last'.got))
       /\ \A k \in DOMAIN cache' \ DOMAIN cache :
             /\ \E t \in Tasks : Finishes(t)
             /\ k = upper(last'.input)
             /\ HasResults(last'.got)]_vars

\* resolve("aapl") missed, its lookup returned two results, and the call
\* returned the first one's cik, now cached under "AAPL"
C26_Witness ==
    /\ last.input = aapl
    /\ last.calls = 1
    /\ HasResults(last.got)
    /\ Len(DictGet(last.got.value, "data", JList(<<>>)).v) = 2
    /\ last.ret = Return(JStr(MSFT_CIK))
    /\ AAPL \in DOMAIN cache
    /\ cache[AAPL] = JStr(MSFT_CIK)
    /\ aapl \notin DOMAIN cache

\* C30: resolutions of different keys do not interfere.  In every step of
\* every interleaving, the only cache key whose entry may appear or change is
\* the upper-cased input of the call that ends in the step, and no entry
\* disappears; a call that suspends, returns at once or ends in an error
\* leaves the whole cache as it was; and every key that some call resolved
\* through a lookup has an entry, in every state (no lost entries).
C30_NoInterference ==
    [][/\ \A k \in DOMAIN cache : k \in DOMAIN cache'
       /\ \A t \in Tasks : Finishes(t) =>
             /\ \A k \in DOMAIN cache' :
                   k # upper(ticker_or_cik[t]) => (k \in DOMAIN cache /\ cache'[k] = cache[k])
             /\ last'.ret.kind = "raise" => cache' = cache
       /\ (\A t \in Tasks : ~Finishes(t)) => cache' = cache
       /\ DOMAIN firstId' \subseteq DOMAIN cache']_vars

\* a lookup of "AAPL" has just succeeded while a lookup of "320193" is in
\* flight and after an earlier one of "320193" had succeeded: both entries are there
C30_Witness ==
    /\ last.calls = 1
    /\ last.ret.kind = "return"
    /\ upper(last.input) = AAPL
    /\ \E t \in Tasks : pc[t] = "awaiting" /\ ticker_or_cik[t] = UNPADDED
    /\ DOMAIN firstId = {AAPL, UNPADDED}
    /\ DOMAIN cache = {AAPL, UNPADDED}
    /\ cache[UNPADDED] = firstId[UNPADDED]

\* the api_key argument is a non-empty string
ExplicitKey == init_args.api_key # JNull /\ init_args.api_key.v # <<>>

\* THESMA_API_KEY as the construction finds it, "" when unset
EnvKey == IF "THESMA_API_KEY" \in DOMAIN environ THEN environ["THESMA_API_KEY"] ELSE <<>>

\* the client was built and sends k as its bearer token
BuiltWith(k) == client.kind = "return" /\ client.value.authorization = Msg("Bearer {}", <<k>>)

NotAmong(v, names) == Truthy(v) /\ v.v \notin names

\* the argument is given and is not a date written YYYY-MM-DD
BadDate(v) == Truthy(v) /\ ~DATE_PATTERN_match(v.v)

\* period and quarter do not go together
BadQuarter(a) ==
    \/ a.period = JStr(<<"quarterly">>) /\ a.quarter = JNull
    \/ a.period = JStr(<<"annual">>) /\ a.quarter # JNull

\* the handler called rejects the parameters it was called with
Rejects ==
    LET a == tool.args IN
    CASE tool.name = "get_events" ->
            NotAmong(a.category, VALID_CATEGORIES) \/ BadDate(a.from_date) \/ BadDate(a.to_date)
      [] tool.name = "get_insider_trades" ->
            NotAmong(a.type, VALID_TYPES) \/ BadDate(a.from_date) \/ BadDate(a.to_date)
      [] tool.name = "screen_companies" ->
            "sort" \in DOMAIN a.params /\ NotAmong(a.params.sort, VALID_SORT_FIELDS)
      [] tool.name = "get_financial_metric" -> a.metric.v \notin VALID_METRICS
      [] tool.name = "get_ratio_history" -> a.ratio.v \notin VALID_RATIOS
      [] tool.name \in {"get_financials", "get_ratios"} -> BadQuarter(a)
      [] OTHER -> FALSE

ValidationTexts ==
    {"Invalid category '{}'. Valid categories: {}.",
     "Invalid type '{}'. Valid types: {}.",
     "Invalid date format '{}'. Expected YYYY-MM-DD.",
     "Invalid sort field '{}'. Valid fields: {}",
     "Invalid metric '{}'. Valid metrics are: {}",
     "Invalid ratio '{}'. Valid ratios are: {}",
     "Quarter (1-4) is required when period is 'quarterly'.",
     "Quarter should not be specified when period is 'annual'."}

\* C21: a handler that rejects its parameters has ended, by returning its
\* validation message, without a resolver call and without a request; and
\* a validation message is returned only so.
C21_ValidationFirst ==
    /\ (tool # NoTool /\ Rejects) =>
          /\ tpc = "done"
          /\ trace = <<>>
          /\ tret.kind = "return"
          /\ tret.value.fmt \in ValidationTexts
    /\ (tpc = "done" /\ tret.kind = "return" /\ tret.value.fmt \in ValidationTexts) =>
          Rejects /\ trace = <<>>

\* get_insider_trades for AAPL with an unknown type: the message, and nothing done
C21_Witness ==
    /\ tool.name = "get_insider_trades"
    /\ tool.args.ticker = JStr(AAPL)
    /\ tool.args.type = JStr(<<"short_sell">>)
    /\ tpc = "done"
    /\ trace = <<>>
    /\ tret = Return(Msg("Invalid type '{}'. Valid types: {}.",
                         <<<<"short_sell">>, <<"exercise, grant, purchase, sale">>>>))

\* the handler called takes a limit
TakesLimit == tool # NoTool /\ "limit" \in DOMAIN tool.args

\* C22: every request that carries per_page carries min(limit, 50), which
\* is at most 50, and the list request of every handler that takes a limit
\* (its data request, the name search of search_companies) carries per_page.
C22_LimitCapped ==
    /\ \A i \in DOMAIN trace :
          (trace[i].ev = "get" /\ "per_page" \in DOMAIN trace[i].params) =>
              /\ TakesLimit
              /\ trace[i].params.per_page.t = "int"
              /\ trace[i].params.per_page.v <= 50
              /\ trace[i].params.per_page.v =
                    (IF tool.args.limit < 50 THEN tool.args.limit ELSE 50)
    /\ (TakesLimit /\ tpc \in {"data", "name_search"}) =>
          "per_page" \in DOMAIN trace[Len(trace)].params

\* get_institutional_holders with limit 51 has asked for 50 holders
C22_Witness ==
    /\ tool.name = "get_institutional_holders"
    /\ tool.args.limit = 51
    /\ tpc = "data"
    /\ trace[Len(trace)].path.fmt = "/v1/us/sec/companies/{}/institutional-holders"
    /\ trace[Len(trace)].params.per_page = JInt(50)

\* the invocation inv resolves a fund: get_fund_holdings, or get_holding_changes by fund
IsFundCall(inv) ==
    \/ inv.name = "get_fund_holdings"
    \/ /\ inv.name = "get_holding_changes"
       /\ ~Truthy(inv.args.ticker)
       /\ Truthy(inv.args.fund_name)

FundEndpoints == {"/v1/us/sec/funds/{}/holdings", "/v1/us/sec/funds/{}/holding-changes"}

\* C23: an invocation whose fund argument matches ^0\d{9}$ issues one
\* request in all, to the endpoint of that identifier, and no fund search;
\* with any other fund argument the first request is the fund search for the
\* name as given, and when the search comes back with no result the handler
\* returns the "No fund found" message without another request.
C23_FundPassthrough ==
    [][/\ (IsFundCall(tool') /\ CIK_PATTERN_match(tool'.args.fund_name.v)) =>
             /\ Len(trace') = 1
             /\ trace'[1].ev = "get"
             /\ trace'[1].path.fmt \in FundEndpoints
             /\ trace'[1].path.args = <<tool'.args.fund_name.v>>
       /\ (IsFundCall(tool') /\ ~CIK_PATTERN_match(tool'.args.fund_name.v)) =>
             /\ trace'[1] = GetEv(Msg("/v1/us/sec/funds", <<>>), [search |-> tool'.args.fund_name])
             /\ \A i \in 2..Len(trace') : trace'[i].path.fmt \in FundEndpoints
       /\ \A got \in GetResults :
             (IsFundCall(tool) /\ tpc = "fund_search" /\ Answer(got) /\ FalsyResult(got)) =>
                 /\ tpc' = "done"
                 /\ tret' = Return(Msg("No fund found matching '{}'. Try a different name or use the fund's CIK directly.",
                                       <<tool.args.fund_name.v>>))
                 /\ trace' = trace]_vars

\* get_fund_holdings("0000789019") has ended after its one request, that of the identifier
C23_Witness ==
    /\ tool.name = "get_fund_holdings"
    /\ tool.args.fund_name = JStr(MSFT_CIK)
    /\ tpc = "done"
    /\ tret.kind = "return"
    /\ trace = <<GetEv(Msg("/v1/us/sec/funds/{}/holdings", <<MSFT_CIK>>),
                       [per_page |-> JInt(20), position_type |-> JStr(<<"equity">>)])>>

\* the ticker argument of the invocation is absent, empty or only whitespace
BlankTicker == tool.args.ticker = JNull \/ Blank(tool.args.ticker.v)

AllCompanies == {"/v1/us/sec/events", "/v1/us/sec/insider-trades"}

CompanyScoped == {"/v1/us/sec/companies/{}/events", "/v1/us/sec/companies/{}/insider-trades"}

\* the number of resolver calls in the trace
RECURSIVE ResolveCalls(_)
ResolveCalls(tr) ==
    IF tr = <<>> THEN 0
    ELSE (IF Head(tr).ev = "resolve" THEN 1 ELSE 0) + ResolveCalls(Tail(tr))

\* C27: get_events and get_insider_trades with a ticker that is absent,
\* empty or only whitespace never call the resolver and issue one request in
\* all, to the all-companies endpoint; with any other ticker they call the
\* resolver exactly once, first, with the ticker as given, never ask the
\* all-companies endpoint, and their data request goes to the
\* company-scoped endpoint of the identifier the resolver returned.
C27_BlankTickerIsAbsent ==
    (tool.name \in {"get_events", "get_insider_trades"} /\ trace # <<>>) =>
        /\ BlankTicker =>
              /\ Len(trace) = 1
              /\ trace[1].ev = "get"
              /\ trace[1].path.fmt \in AllCompanies
              /\ trace[1].path.args = <<>>
        /\ ~BlankTicker =>
              /\ trace[1] = ResolveEv(tool.args.ticker.v)
              /\ ResolveCalls(trace) = 1
              /\ \A i \in DOMAIN trace :
                    /\ trace[i].path.fmt \notin AllCompanies
                    /\ trace[i].path.fmt \in CompanyScoped =>
                          \E j \in 1..(i - 1) :
                              /\ trace[j].ev = "resolved"
                              /\ trace[j].ok
                              /\ trace[i].path.args = <<trace[j].arg>>
              /\ tpc = "data" => trace[Len(trace)].path.fmt \in CompanyScoped

\* get_insider_trades(ticker=" ") has ended after its one request, to the all-companies endpoint
C27_Witness ==
    /\ tool.name = "get_insider_trades"
    /\ tool.args.ticker = JStr(<<" ">>)
    /\ tpc = "done"
    /\ tret.kind = "return"
    /\ Len(trace) = 1
    /\ trace[1].path = Msg("/v1/us/sec/insider-trades", <<>>)

InsiderTradesPaths == {"/v1/us/sec/insider-trades", "/v1/us/sec/companies/{}/insider-trades"}

\* C28: when get_insider_trades is given a min_value and accepts its
\* parameters, the insider-trades request it issues carries that min_value,
\* with or without a ticker.
C28_MinValuePassed ==
    (tool.name = "get_insider_trades" /\ tool.args.min_value # JNull) =>
        \A i \in DOMAIN trace :
            (trace[i].ev = "get" /\ trace[i].path.fmt \in InsiderTradesPaths) =>
                /\ "min_value" \in DOMAIN trace[i].params
                /\ trace[i].params.min_value = tool.args.min_value

====
